---- MODULE Spec2Model ----
(***************************************************************************)
(* Versioning action (Cloudshelf/versioning-action, src/main.ts).          *)
(*                                                                         *)
(* One run of the action: it checks its configuration, loads the release   *)
(* catalog page by page (getReleases), reads the triggering commit's       *)
(* date, selects the last production and the last development release,    *)
(* asks for the two commit ranges, computes the new version string and     *)
(* the changelog (generateChangelog) and sets its outputs.                 *)
(*                                                                         *)
(* JavaScript strings are modelled as sequences of one-character strings,  *)
(* so that trim, toLowerCase, startsWith, substring, template formatting   *)
(* and the version regular expression are computed, not assumed.           *)
(***************************************************************************)
EXTENDS Integers, Sequences, FiniteSets, TLC

(***************************************************************************)
(* Strings                                                                 *)
(***************************************************************************)
EmptyString == << >>

Digits == <<"0","1","2","3","4","5","6","7","8","9">>

UpperCase == <<"A","B","C","D","E","F","G","H","I","J","K","L","M","N","O","P","Q","R","S","T","U","V","W","X","Y","Z">>

LowerCase == <<"a","b","c","d","e","f","g","h","i","j","k","l","m","n","o","p","q","r","s","t","u","v","w","x","y","z">>

WhiteSpace == {" ", "\t", "\n", "\r"}

LineTerminators == {"\n", "\r"}

DigitValue(c) == (CHOOSE i \in 1..Len(Digits) : Digits[i] = c) - 1

\* String.prototype.toLowerCase, one character
ToLowerChar(c) ==
  IF \E i \in 1..Len(UpperCase) : UpperCase[i] = c
  THEN LowerCase[CHOOSE i \in 1..Len(UpperCase) : UpperCase[i] = c]
  ELSE c

toLowerCase(s) == [i \in 1..Len(s) |-> ToLowerChar(s[i])]

\* String.prototype.trim: strips white space at both ends
trim(s) ==
  LET inked == {i \in 1..Len(s) : s[i] \notin WhiteSpace}
  IN  IF inked = {} THEN EmptyString
      ELSE LET first == CHOOSE i \in inked : \A j \in inked : i <= j
               last  == CHOOSE i \in inked : \A j \in inked : j <= i
           IN  SubSeq(s, first, last)

startsWith(s, prefix) ==
  /\ Len(s) >= Len(prefix)
  /\ SubSeq(s, 1, Len(prefix)) = prefix

\* String.prototype.substring(0, n)
substring0(s, n) == IF Len(s) <= n THEN s ELSE SubSeq(s, 1, n)

\* String.prototype.replace(pattern, by) with a string pattern: the first
\* occurrence only
RECURSIVE replaceFirst(_, _, _)
replaceFirst(s, pattern, by) ==
  IF Len(s) < Len(pattern) \/ Len(pattern) = 0 THEN s
  ELSE IF startsWith(s, pattern)
       THEN by \o SubSeq(s, Len(pattern) + 1, Len(s))
       ELSE <<s[1]>> \o replaceFirst(Tail(s), pattern, by)

\* Numbers. An integer below 2^31 is itself; NaN and the numbers from 1e21
\* on, which are written with an exponent, are kept as negative integers:
\* NaN as -1, the power of ten 1e<k> as -k.
MinExponent == 21

Exponential(k) == 0 - k

IsExponential(n) == n <= Exponential(MinExponent)

\* the decimal digits of a non-negative integer
RECURSIVE Decimal(_)
Decimal(n) ==
  IF n < 10 THEN <<Digits[n + 1]>>
  ELSE Decimal(n \div 10) \o <<Digits[(n % 10) + 1]>>

\* `${n}` of a number (Number::toString)
NumberToString(n) ==
  IF IsExponential(n) THEN <<"1","e","+">> \o Decimal(0 - n)
  ELSE IF n < 0 THEN <<"N","a","N">>
  ELSE Decimal(n)

\* n++: a number from 1e21 on absorbs the 1, and so does NaN
Increment(n) == IF n < 0 THEN n ELSE n + 1

\* the value of a non-empty run of decimal digits
RECURSIVE DigitsValue(_)
DigitsValue(s) ==
  IF Len(s) = 1 THEN DigitValue(s[1])
  ELSE 10 * DigitsValue(SubSeq(s, 1, Len(s) - 1)) + DigitValue(s[Len(s)])

\* parseInt of a non-empty run of decimal digits: "1" and k zeros give 1e<k>
parseInt(s) ==
  IF Len(s) > MinExponent /\ s[1] = "1" /\ \A i \in 2..Len(s) : s[i] = "0"
  THEN Exponential(Len(s) - 1)
  ELSE DigitsValue(s)

\* parseInt(undefined) and Date.parse("") are NaN; every comparison with
\* NaN is false
NaN == -1

Undefined == <<"undefined">>

S_development == <<"d","e","v","e","l","o","p","m","e","n","t">>

S_rc == <<"r","c">>

S_production == <<"p","r","o","d","u","c","t","i","o","n">>

(***************************************************************************)
(* extractVersionInfo                                                      *)
(*   /^v(\d+).(\d+).(\d+)(-((development)|((rc).(\d+)))\+([a-f0-9]+))?$/   *)
(*   with the flags g, i, m, s: letters match in either case, the dots are *)
(*   unescaped and match any character (line terminators included), and ^  *)
(*   and $ match at the line boundaries inside the string.                 *)
(***************************************************************************)
DigitChars == {Digits[i] : i \in 1..Len(Digits)}

HexChars == DigitChars \cup {"a","b","c","d","e","f","A","B","C","D","E","F"}

\* the ends e >= from of the non-empty runs s[from..e] made of `Class` only
RunEnds(s, from, class) ==
  {e \in from..Len(s) : \A k \in from..e : s[k] \in class}

\* ^ with the m flag
AtLineStart(s, i) == i = 1 \/ s[i - 1] \in LineTerminators

\* $ with the m flag, after the match ended at e
AtLineEnd(s, e) == e = Len(s) \/ s[e + 1] \in LineTerminators

\* the literal `word`, in either case, at s[from..]
LiteralAt(s, from, word) ==
  /\ from + Len(word) - 1 <= Len(s)
  /\ toLowerCase(SubSeq(s, from, from + Len(word) - 1)) = word

\* the optional group 4 from e3 + 1 on: none (the match ends at e3), or
\* "-development+<hash>", or "-rc<any><digits>+<hash>"
SuffixMatches(s, e3) ==
  LET none == IF AtLineEnd(s, e3)
              THEN {[kind |-> 0, e4 |-> e3, e9 |-> e3, eh |-> e3]} ELSE {}
      dev  == IF LiteralAt(s, e3 + 1, <<"-">> \o S_development \o <<"+">>)
              THEN {[kind |-> 2, e4 |-> e3 + 12, e9 |-> e3 + 12, eh |-> eh] :
                      eh \in {e \in RunEnds(s, e3 + 14, HexChars) : AtLineEnd(s, e)}}
              ELSE {}
      rc   == IF LiteralAt(s, e3 + 1, <<"-">> \o S_rc) /\ e3 + 4 <= Len(s)
              THEN UNION {
                     IF e9 + 1 <= Len(s) /\ s[e9 + 1] = "+"
                     THEN {[kind |-> 1, e4 |-> e3 + 3, e9 |-> e9, eh |-> eh] :
                             eh \in {e \in RunEnds(s, e9 + 2, HexChars) : AtLineEnd(s, e)}}
                     ELSE {} : e9 \in RunEnds(s, e3 + 5, DigitChars)}
              ELSE {}
  IN  none \cup dev \cup rc

\* every way the whole expression matches s: the start i, the ends of the
\* three numbers and the suffix
RegexMatches(s) ==
  UNION { UNION { UNION { UNION {
    {[i |-> i, e1 |-> e1, e2 |-> e2, e3 |-> e3,
      kind |-> x.kind, e4 |-> x.e4, e9 |-> x.e9, eh |-> x.eh] : x \in SuffixMatches(s, e3)}
    : e3 \in IF e2 + 2 <= Len(s) THEN RunEnds(s, e2 + 2, DigitChars) ELSE {} }
    : e2 \in IF e1 + 2 <= Len(s) THEN RunEnds(s, e1 + 2, DigitChars) ELSE {} }
    : e1 \in RunEnds(s, i + 1, DigitChars) }
    : i \in {j \in 1..Len(s) : AtLineStart(s, j) /\ ToLowerChar(s[j]) = "v"} }

\* the matches of M that are best for the key f: exec returns the leftmost
\* match, and among those the one the backtracking reaches first (greedy
\* quantifiers: the longest first number, then the longest second, ...; the
\* optional group is tried before it is skipped)
Narrow(M, key, least) ==
  {m \in M : \A n \in M : IF least THEN m[key] <= n[key] ELSE n[key] <= m[key]}

RegexExec(s) ==
  LET M0 == RegexMatches(s)
      M1 == Narrow(M0, "i", TRUE)
      M2 == Narrow(M1, "e1", FALSE)
      M3 == Narrow(M2, "e2", FALSE)
      M4 == Narrow(M3, "e3", FALSE)
      M5 == Narrow(M4, "kind", FALSE)
      M6 == Narrow(M5, "e9", FALSE)
      M7 == Narrow(M6, "eh", FALSE)
  IN  M7

\* the undefined the function returns when the expression does not match
NoVersionInfo ==
  [defined |-> FALSE, major |-> 0, minor |-> 0, patch |-> 0,
   releaseType |-> Undefined, releaseCandidate |-> NaN, hash |-> Undefined]

extractVersionInfo(versionString) ==
  LET found == RegexExec(versionString)
  IN  IF found = {} THEN NoVersionInfo
      ELSE LET m == CHOOSE x \in found : TRUE
               s == versionString
               match5 == SubSeq(s, m.e3 + 2, m.e9)
               match8 == SubSeq(s, m.e3 + 2, m.e3 + 3)
           IN  [defined |-> TRUE,
                major |-> parseInt(SubSeq(s, m.i + 1, m.e1)),
                minor |-> parseInt(SubSeq(s, m.e1 + 2, m.e2)),
                patch |-> parseInt(SubSeq(s, m.e2 + 2, m.e3)),
                releaseType |-> IF m.kind = 1 THEN match8
                                ELSE IF m.kind = 2 THEN match5
                                ELSE S_production,
                releaseCandidate |-> IF m.kind = 1
                                     THEN parseInt(SubSeq(s, m.e3 + 5, m.e9))
                                     ELSE NaN,
                hash |-> IF m.kind = 0 THEN Undefined
                         ELSE SubSeq(s, m.e9 + 2, m.eh)]

(***************************************************************************)
(* Dates. An ISO date string is modelled by its instant in milliseconds;   *)
(* the empty string (no tag commit, the synthetic baseline) by EmptyDate.  *)
(***************************************************************************)
EmptyDate == -1

\* a faulty variant of DateParse: the empty string is the epoch
DateParseEmptyIsEpoch(d) == IF d = EmptyDate THEN 0 ELSE d

\* Date.parse
DateParse(d) == IF d = EmptyDate THEN NaN ELSE d

\* a <= b and a > b on numbers: false as soon as one side is NaN
NumLeq(a, b) == a # NaN /\ b # NaN /\ a <= b

NumGt(a, b) == a # NaN /\ b # NaN /\ a > b

\* date + 1
PlusOne(n) == IF n = NaN THEN NaN ELSE n + 1

(***************************************************************************)
(* Sequences                                                               *)
(***************************************************************************)
SeqUpTo(S, n) == UNION {[1..k -> S] : k \in 0..n}

\* _.find, on the indices of the elements that pass its test: the first of
\* them, 0 if there is none
FindIndex(hits) ==
  IF hits = {} THEN 0
  ELSE CHOOSE i \in hits : \A j \in hits : i <= j

\* _.join(list, sep)
RECURSIVE Join(_, _)
Join(list, sep) ==
  IF Len(list) = 0 THEN EmptyString
  ELSE IF Len(list) = 1 THEN list[1]
  ELSE list[1] \o sep \o Join(Tail(list), sep)

(***************************************************************************)
(* The release catalog as the platform delivers it                         *)
(***************************************************************************)
\* A nullable object of the query's reply carries the flag isNull.
TagCommit(authoredDate, oid) ==
  [isNull |-> FALSE, authoredDate |-> authoredDate, oid |-> oid]

NullTagCommit == [isNull |-> TRUE, authoredDate |-> EmptyDate, oid |-> EmptyString]

ReleaseNode(name, updatedAt, tagCommit, isDraft) ==
  [isNull |-> FALSE, name |-> name, updatedAt |-> updatedAt,
   tagCommit |-> tagCommit, isDraft |-> isDraft]

NullNode ==
  [isNull |-> TRUE, name |-> EmptyString, updatedAt |-> EmptyDate,
   tagCommit |-> NullTagCommit, isDraft |-> FALSE]

\* a ReleaseEdge with its node
ReleaseEdge(name, updatedAt, tagCommit, isDraft) ==
  [isNull |-> FALSE, node |-> ReleaseNode(name, updatedAt, tagCommit, isDraft)]

\* an edge without node, and a null in the list of edges
NodelessEdge == [isNull |-> FALSE, node |-> NullNode]

NullEdge == [isNull |-> TRUE, node |-> NullNode]

\* a null or undefined cursor
NullCursor == "null"

\* one reply of the GetReleases query
Page(edges, endCursor, more) ==
  [errors |-> FALSE, repository |-> TRUE, edges |-> edges,
   endCursor |-> endCursor, hasNextPage |-> more]

ErrorPage ==
  [errors |-> TRUE, repository |-> FALSE, edges |-> << >>,
   endCursor |-> NullCursor, hasNextPage |-> FALSE]

\* data.repository is null
NoRepositoryPage ==
  [errors |-> FALSE, repository |-> FALSE, edges |-> << >>,
   endCursor |-> NullCursor, hasNextPage |-> FALSE]

\* a faulty variant of PushedEdges: an edge already seen in the page is dropped
PushedEdgesDeduplicated(page) ==
  IF page.repository
  THEN LET kept == {i \in 1..Len(page.edges) :
                      /\ ~page.edges[i].isNull
                      /\ \A j \in 1..(i - 1) : page.edges[j] # page.edges[i]}
       IN  SelectSeq([i \in 1..Len(page.edges) |->
                     IF i \in kept THEN page.edges[i] ELSE NullEdge],
                  LAMBDA e : ~e.isNull)
  ELSE << >>

\* the edges a page adds to allEdges: allEdges.push(edge) if (edge)
PushedEdges(page) ==
  IF page.repository THEN SelectSeq(page.edges, LAMBDA e : ~e.isNull) ELSE << >>

\* a faulty variant of returnableData: a release whose name is no version is
\* kept, without version information
RECURSIVE returnableDataUnfiltered(_)
returnableDataUnfiltered(edges) ==
  IF Len(edges) = 0 THEN << >>
  ELSE LET edge == edges[1]
           rest == returnableDataUnfiltered(Tail(edges))
       IN  IF edge.node.isNull THEN rest
           ELSE << [name |-> edge.node.name,
                    versionInfo |-> extractVersionInfo(edge.node.name),
                    releaseDate |-> edge.node.updatedAt,
                    tagDate |-> IF edge.node.tagCommit.isNull THEN EmptyDate
                                ELSE edge.node.tagCommit.authoredDate,
                    sha |-> IF edge.node.tagCommit.isNull THEN EmptyString
                            ELSE edge.node.tagCommit.oid,
                    isDraft |-> edge.node.isDraft] >> \o rest

\* allEdges.map(...) of getReleases: the UsefulReleaseData of the edges that
\* have a node and a name the version grammar accepts
RECURSIVE returnableData(_)
returnableData(edges) ==
  IF Len(edges) = 0 THEN << >>
  ELSE LET edge == edges[1]
           rest == returnableData(Tail(edges))
       IN  IF edge.node.isNull THEN rest
           ELSE LET name == edge.node.name
                    versionInfo == extractVersionInfo(name)
                IN  IF ~versionInfo.defined THEN rest
                    ELSE << [name |-> name,
                             versionInfo |-> versionInfo,
                             releaseDate |-> edge.node.updatedAt,
                             tagDate |-> IF edge.node.tagCommit.isNull THEN EmptyDate
                                         ELSE edge.node.tagCommit.authoredDate,
                             sha |-> IF edge.node.tagCommit.isNull THEN EmptyString
                                     ELSE edge.node.tagCommit.oid,
                             isDraft |-> edge.node.isDraft] >> \o rest

(***************************************************************************)
(* Baseline selection (run)                                                *)
(***************************************************************************)
\* a faulty variant of ZeroBaseline: the production literal is used for both
\* baselines
ZeroBaselineOfProduction(type) ==
  [name |-> EmptyString,
   versionInfo |-> [defined |-> TRUE, major |-> 0, minor |-> 0, patch |-> 0,
                    releaseType |-> S_production,
                    releaseCandidate |-> NaN, hash |-> Undefined],
   releaseDate |-> EmptyDate, tagDate |-> EmptyDate,
   sha |-> EmptyString, isDraft |-> FALSE]

\* the synthetic baseline used when no release qualifies
ZeroBaseline(type) ==
  [name |-> EmptyString,
   versionInfo |-> [defined |-> TRUE, major |-> 0, minor |-> 0, patch |-> 0, releaseType |-> type,
                    releaseCandidate |-> NaN, hash |-> Undefined],
   releaseDate |-> EmptyDate, tagDate |-> EmptyDate,
   sha |-> EmptyString, isDraft |-> FALSE]

IsLastProductionRelease(r, date) ==
  /\ NumLeq(DateParse(r.releaseDate), date)
  /\ r.versionInfo.releaseType = S_production
  /\ ~r.isDraft

\* a faulty variant of IsLastDevRelease: the release date is compared, as for
\* the production baseline
IsLastDevReleaseByReleaseDate(r, date) ==
  /\ NumLeq(DateParse(r.releaseDate), date)
  /\ r.versionInfo.releaseType = S_development
  /\ ~r.isDraft

IsLastDevRelease(r, date) ==
  /\ NumLeq(DateParse(r.tagDate), date)
  /\ r.versionInfo.releaseType = S_development
  /\ ~r.isDraft

selectProductionBaseline(releaseList, date) ==
  LET found == FindIndex({i \in 1..Len(releaseList) :
                            IsLastProductionRelease(releaseList[i], date)})
  IN  IF found = 0 THEN ZeroBaseline(S_production) ELSE releaseList[found]

selectDevelopmentBaseline(releaseList, date) ==
  LET found == FindIndex({i \in 1..Len(releaseList) :
                            IsLastDevRelease(releaseList[i], date)})
  IN  IF found = 0 THEN ZeroBaseline(S_development) ELSE releaseList[found]

(***************************************************************************)
(* Version computation (run)                                               *)
(***************************************************************************)
\* a faulty variant of MessageStartsWith: the message is not trimmed
MessageStartsWithUntrimmed(message, prefix) ==
  startsWith(toLowerCase(message), prefix)

\* message.trim().toLowerCase().startsWith(prefix)
MessageStartsWith(message, prefix) ==
  startsWith(toLowerCase(trim(message)), prefix)

hasPatch(history) ==
  \E i \in 1..Len(history) :
    \/ MessageStartsWith(history[i], <<"f","i","x">>)
    \/ MessageStartsWith(history[i], <<"c","h","o","r","e">>)
    \/ MessageStartsWith(history[i], <<"r","e","f","a","c","t","o","r">>)
    \/ MessageStartsWith(history[i], <<"t","a","s","k">>)

hasMinor(history) ==
  \E i \in 1..Len(history) : MessageStartsWith(history[i], <<"f","e","a","t">>)

hasMajor(history) ==
  \E i \in 1..Len(history) : MessageStartsWith(history[i], <<"b","r","e","a","k","i","n","g">>)

\* newMajor, newMinor, newPatch of the development channel
BumpedNumbers(old, history) ==
  IF hasMajor(history)
  THEN [major |-> Increment(old.major), minor |-> 0, patch |-> 0]
  ELSE IF hasMinor(history)
  THEN [major |-> old.major, minor |-> Increment(old.minor), patch |-> 0]
  ELSE IF hasPatch(history)
  THEN [major |-> old.major, minor |-> old.minor, patch |-> Increment(old.patch)]
  ELSE [major |-> old.major, minor |-> old.minor, patch |-> old.patch]

\* `v${major}.${minor}.${patch}`
VersionString(v) ==
  <<"v">> \o NumberToString(v.major) \o <<".">> \o NumberToString(v.minor)
          \o <<".">> \o NumberToString(v.patch)

\* a faulty variant of numberRcsSinceProdRelease: the upper bound is the
\* trigger's instant itself
numberRcsUpToTrigger(releaseList, lastProd, date) ==
  SelectSeq(releaseList, LAMBDA r :
    LET versionInfo == extractVersionInfo(r.name)
    IN  /\ versionInfo.defined
        /\ versionInfo.releaseType = S_rc
        /\ NumGt(DateParse(r.releaseDate), DateParse(lastProd.releaseDate))
        /\ NumLeq(DateParse(r.releaseDate), date))

\* the releases the rc channel counts
numberRcsSinceProdRelease(releaseList, lastProd, date) ==
  SelectSeq(releaseList, LAMBDA r :
    LET versionInfo == extractVersionInfo(r.name)
    IN  /\ versionInfo.defined
        /\ versionInfo.releaseType = S_rc
        /\ NumGt(DateParse(r.releaseDate), DateParse(lastProd.releaseDate))
        /\ NumLeq(DateParse(r.releaseDate), PlusOne(date)))

\* a faulty variant of newVersionOf: the commits bump the numbers on every
\* channel
newVersionAlwaysBumped(channel, lastDev, history) ==
  VersionString(BumpedNumbers(lastDev.versionInfo, history))

newVersionOf(channel, lastDev, history) ==
  IF channel = S_development
  THEN VersionString(BumpedNumbers(lastDev.versionInfo, history))
  ELSE VersionString(lastDev.versionInfo)

\* a faulty variant of metadataOf: the suffix of the development channel is
\* abbreviated
metadataAbbreviated(channel, sha, releaseList, lastProd, date) ==
  IF channel = S_development
  THEN <<"-","d","e","v","+">> \o substring0(sha, 7)
  ELSE IF channel = S_rc
  THEN <<"-","r","c",".">>
       \o NumberToString(Len(numberRcsSinceProdRelease(releaseList, lastProd, date)) + 1)
       \o <<"+">> \o substring0(sha, 7)
  ELSE EmptyString

\* a faulty variant of metadataOf: every channel but development gets the rc
\* suffix
metadataRcUnlessDevelopment(channel, sha, releaseList, lastProd, date) ==
  IF channel = S_development
  THEN <<"-","d","e","v","e","l","o","p","m","e","n","t","+">> \o substring0(sha, 7)
  ELSE <<"-","r","c",".">>
       \o NumberToString(Len(numberRcsSinceProdRelease(releaseList, lastProd, date)) + 1)
       \o <<"+">> \o substring0(sha, 7)

\* github.context.sha is the GITHUB_SHA of the runner's environment
metadataOf(channel, sha, releaseList, lastProd, date) ==
  IF channel = S_development
  THEN <<"-","d","e","v","e","l","o","p","m","e","n","t","+">> \o substring0(sha, 7)
  ELSE IF channel = S_rc
  THEN <<"-","r","c",".">>
       \o NumberToString(Len(numberRcsSinceProdRelease(releaseList, lastProd, date)) + 1)
       \o <<"+">> \o substring0(sha, 7)
  ELSE EmptyString

(***************************************************************************)
(* generateChangelog                                                       *)
(***************************************************************************)
\* a faulty variant of ChangesOf: the entries are listed latest first
ChangesOfReversed(messages, token) ==
  LET kept == SelectSeq(messages, LAMBDA m : MessageStartsWith(m, token))
  IN  [i \in 1..Len(kept) |-> <<"-"," ">> \o kept[Len(kept) + 1 - i]]

\* _.chain(messages).filter(startsWith(token)).map(`- ${message}`)
ChangesOf(messages, token) ==
  LET kept == SelectSeq(messages, LAMBDA m : MessageStartsWith(m, token))
  IN  [i \in 1..Len(kept) |-> <<"-"," ">> \o kept[i]]

\* `${heading}\n${_.join(entries, "\n")}\n`, if the section is rendered
Section(heading, rendered, entries) ==
  IF Len(rendered) > 0
  THEN heading \o <<"\n">> \o Join(entries, <<"\n">>) \o <<"\n">>
  ELSE EmptyString

FallbackLine == <<"G","e","n","e","r","a","l"," ","b","u","g"," ","f","i","x","e","s"," ","a","n","d"," ","i","m","p","r","o","v","e","m","e","n","t","s","\n">>

\* a faulty variant of Document: the Refactors section does not count as a
\* change
DocumentRefactorUnflagged(messages) ==
  LET major    == ChangesOf(messages, <<"b","r","e","a","k","i","n","g",":">>)
      minor    == ChangesOf(messages, <<"f","e","a","t",":">>)
      patch    == ChangesOf(messages, <<"f","i","x",":">>)
      chore    == ChangesOf(messages, <<"c","h","o","r","e",":">>)
      task     == ChangesOf(messages, <<"t","a","s","k",":">>)
      refactor == ChangesOf(messages, <<"r","e","f","a","c","t","o","r",":">>)
      sections ==
           Section(<<"#","#"," ","B","r","e","a","k","i","n","g"," ","C","h","a","n","g","e","s">>, major, major)
        \o Section(<<"#","#","#"," ","N","e","w"," ","F","e","a","t","u","r","e","s">>, minor, minor)
        \o Section(<<"#","#","#"," ","B","u","g"," ","F","i","x","e","s">>, patch, patch)
        \o Section(<<"#","#","#"," ","C","h","o","r","e","s">>, chore, chore)
        \o Section(<<"#","#","#"," ","T","a","s","k","s">>, task, chore)
        \o Section(<<"#","#","#"," ","R","e","f","a","c","t","o","r","s">>, refactor, refactor)
      any == Len(major) + Len(minor) + Len(patch) + Len(chore) + Len(task) > 0
  IN  IF any THEN sections ELSE sections \o FallbackLine

\* the six sections of one range, and the fallback line if none is rendered
Document(messages) ==
  LET major    == ChangesOf(messages, <<"b","r","e","a","k","i","n","g",":">>)
      minor    == ChangesOf(messages, <<"f","e","a","t",":">>)
      patch    == ChangesOf(messages, <<"f","i","x",":">>)
      chore    == ChangesOf(messages, <<"c","h","o","r","e",":">>)
      task     == ChangesOf(messages, <<"t","a","s","k",":">>)
      refactor == ChangesOf(messages, <<"r","e","f","a","c","t","o","r",":">>)
      sections ==
           Section(<<"#","#"," ","B","r","e","a","k","i","n","g"," ","C","h","a","n","g","e","s">>, major, major)
        \o Section(<<"#","#","#"," ","N","e","w"," ","F","e","a","t","u","r","e","s">>, minor, minor)
        \o Section(<<"#","#","#"," ","B","u","g"," ","F","i","x","e","s">>, patch, patch)
        \o Section(<<"#","#","#"," ","C","h","o","r","e","s">>, chore, chore)
        \o Section(<<"#","#","#"," ","T","a","s","k","s">>, task, chore)
        \o Section(<<"#","#","#"," ","R","e","f","a","c","t","o","r","s">>, refactor, refactor)
      any == Len(major) + Len(minor) + Len(patch) + Len(chore)
               + Len(task) + Len(refactor) > 0
  IN  IF any THEN sections ELSE sections \o FallbackLine

\* a faulty variant of generateChangelog: the production heading is written
\* on the development channel only
generateChangelogOneHeadingTest(channel, devHistoryMessages, prodHistoryMessages) ==
     (IF channel = S_development
      THEN <<"#"," ","C","h","a","n","g","e","s"," ","s","i","n","c","e"," ","l","a","s","t"," ","d","e","v","e","l","o","p","m","e","n","t"," ","r","e","l","e","a","s","e","\n","\n">>
           \o Document(devHistoryMessages) \o <<"\n">>
           \o <<"#"," ","A","l","l"," ","c","h","a","n","g","e","s"," ","s","i","n","c","e"," ","l","a","s","t"," ","p","r","o","d","u","c","t","i","o","n"," ","r","e","l","e","a","s","e","\n","\n">>
      ELSE EmptyString)
  \o Document(prodHistoryMessages)

generateChangelog(channel, devHistoryMessages, prodHistoryMessages) ==
     (IF channel = S_development
      THEN <<"#"," ","C","h","a","n","g","e","s"," ","s","i","n","c","e"," ","l","a","s","t"," ","d","e","v","e","l","o","p","m","e","n","t"," ","r","e","l","e","a","s","e","\n","\n">>
           \o Document(devHistoryMessages) \o <<"\n">>
      ELSE EmptyString)
  \o (IF channel # S_production
      THEN <<"#"," ","A","l","l"," ","c","h","a","n","g","e","s"," ","s","i","n","c","e"," ","l","a","s","t"," ","p","r","o","d","u","c","t","i","o","n"," ","r","e","l","e","a","s","e","\n","\n">>
      ELSE EmptyString)
  \o Document(prodHistoryMessages)

(***************************************************************************)
(* State                                                                   *)
(***************************************************************************)
VARIABLES
  focus,                   \* the part of the input space this run explores
  pc,                      \* where run() stands
  GITHUB_REF, GITHUB_SHA, GITHUB_TOKEN, releaseType,
  DRY_RUN,                 \* process.env.DRY_RUN
  allEdges, hasNextPage, currentCursor,      \* the locals of getReleases
  requests,                \* the GetReleases queries sent so far
  received,                \* the edges the pages delivered so far, in order
  previousCursor,          \* the cursor the page before the last one reported
  releases,
  date,
  lastProductionRelease, lastDevRelease,
  historyDev, historyProd,
  newVersion, metadata,
  outputs,                 \* core.setOutput
  changelog,
  failures,                \* core.setFailed, in order
  calls,                   \* the requests, outputs and failure reports, in order
  tag, ref, release, notification,     \* what the run created on the platform
  catalog,                 \* the releases of the platform, in the order of creation
  commits                  \* the commits of the branch, oldest first

vars ==
  <<focus, pc, GITHUB_REF, GITHUB_SHA, GITHUB_TOKEN, releaseType, DRY_RUN,
    allEdges, hasNextPage, currentCursor, requests, received, previousCursor,
    releases, date, lastProductionRelease, lastDevRelease,
    historyDev, historyProd, newVersion, metadata, outputs, changelog, failures,
    calls, tag, ref, release, notification, catalog, commits>>

env == <<GITHUB_REF, GITHUB_SHA, GITHUB_TOKEN, releaseType, DRY_RUN>>

loader == <<allEdges, hasNextPage, currentCursor, requests, received, previousCursor>>

baselines == <<date, lastProductionRelease, lastDevRelease>>

results == <<newVersion, metadata, outputs, changelog>>

sinks == <<tag, ref, release, notification>>

world == <<catalog, commits>>

(***************************************************************************)
(* Inputs of a run. The answers of the platform are drawn from bounded     *)
(* sets; `focus` says which part of the input space a run explores in      *)
(* depth: the commit ranges ("bump"), the catalog's production and         *)
(* development releases ("baseline"), its release candidates ("rc"), the   *)
(* paging of the catalog ("load"), the configuration of the run            *)
(* ("config"), the names of the releases ("parse"), the order of the       *)
(* commits of a range ("order"), the size of the version numbers           *)
(* ("numbers"), what the run creates ("sinks") or a series of runs, each   *)
(* on a new commit and on the catalog the runs before it left ("series"). Outside the "sinks" focus a run that is not a dry run gets   *)
(* the plainest answers only ("plain": an empty catalog, empty ranges).    *)
(***************************************************************************)
MaxCommits == 2

MaxEdges == 2

MaxRcEdges == 3

MaxRequests == 3

MaxRuns == 3

Channels == {S_development, S_rc, S_production}

\* the channel matters to the version and to the changelog, not to the load
ChannelsOf(f) ==
  IF f = "rc" THEN {S_rc}
  ELSE IF f \in {"load", "parse"} THEN {S_production}
  ELSE IF f = "config" THEN Channels \cup {EmptyString}
  ELSE Channels

S_true == <<"t","r","u","e">>

S_false == <<"f","a","l","s","e">>

TriggerSha == <<"a","b","c","d","e","f","1","2","3","4">>

SHA1 == <<"1","1","1","1","1","1","1">>

\* the authored date of the triggering commit; the releases are dated 1..4
TriggerDatesOf(f) ==
  IF f \in {"baseline", "rc"} THEN {2, 3}
  ELSE IF f = "series" THEN {commits[Len(commits)].date}
  ELSE {2}

\* the commits of a series: the i-th commit of the branch has the hash
\* CommitSha(i)
CommitSha(i) == [k \in 1..10 |-> IF k = 1 THEN Digits[i + 1] ELSE "a"]

Commit(message, authored) == [message |-> message, date |-> authored]

SeriesMessages == { <<"f","i","x",":"," ","a">>, <<"f","e","a","t",":"," ","b">> }

\* the time between the authored date of the triggering commit and the
\* creation of the release
Latency == 2

\* the place of the commit with the hash sha on the branch, 0 if none has it
IndexOfSha(sha) ==
  LET at == {i \in 1..Len(commits) : CommitSha(i) = sha}
  IN  IF at = {} THEN 0 ELSE CHOOSE i \in at : TRUE

\* compareCommits from base to the head: the messages of the commits after
\* the base, oldest first
RangeAfter(base) ==
  [k \in 1..(Len(commits) - IndexOfSha(base)) |-> commits[IndexOfSha(base) + k].message]

\* a list in every order
Reordered(list) ==
  {[i \in 1..Len(list) |-> list[p[i]]] : p \in Permutations(1..Len(list))}

\* the catalog before the first run of a series: one development release
\* made from the first commit; no release, or one production release
InitialCatalogs(channel) ==
  IF channel = S_development
  THEN {<< ReleaseEdge(<<"v","0",".","0",".","1","-","d","e","v","e","l","o","p","m","e","n","t","+","1","a","a","a","a","a","a">>, 2 + Latency,
                       TagCommit(2, CommitSha(1)), FALSE) >>}
  ELSE {<< >>, << ReleaseEdge(<<"v","1",".","0",".","0">>, 1, TagCommit(1, SHA1), FALSE) >>}

\* commit messages: one per conventional prefix, one without any, one that
\* starts like a prefix but lacks the colon, one in another case and padded
Messages ==
  { <<"f","i","x",":"," ","a">>, <<"f","e","a","t",":"," ","b">>, <<"c","h","o","r","e",":"," ","c">>, <<"b","r","e","a","k","i","n","g",":"," ","x">>, <<"t","a","s","k",":"," ","t">>,
    <<"r","e","f","a","c","t","o","r",":"," ","r">>, <<"d","o","c","s",":"," ","d">>, <<"f","i","x","u","p"," ","e">>, <<" ","F","e","a","t",":"," ","B"," ">> }

\* commit messages that share a category, and two whose categories share a
\* section
OrderMessages == { <<"f","i","x",":"," ","b">>, <<"f","i","x",":"," ","a">>, <<"c","h","o","r","e",":"," ","c">>, <<"t","a","s","k",":"," ","t">> }

BumpEdges ==
  { ReleaseEdge(<<"v","1",".","2",".","3","-","d","e","v","e","l","o","p","m","e","n","t","+","a","b","c">>, 1, TagCommit(1, SHA1), FALSE),
    ReleaseEdge(<<"v","0",".","9",".","9","-","d","e","v","e","l","o","p","m","e","n","t","+","a","b","c">>, 1, TagCommit(1, SHA1), FALSE) }

BaselineEdges ==
  { ReleaseEdge(<<"v","1",".","0",".","0">>, 1, TagCommit(1, SHA1), FALSE),
    ReleaseEdge(<<"v","2",".","0",".","0">>, 2, TagCommit(1, SHA1), FALSE),
    ReleaseEdge(<<"v","2",".","1",".","0">>, 2, TagCommit(1, SHA1), FALSE),
    ReleaseEdge(<<"v","3",".","0",".","0">>, 3, TagCommit(1, SHA1), FALSE),
    ReleaseEdge(<<"v","4",".","0",".","0">>, 1, TagCommit(1, SHA1), TRUE),
    ReleaseEdge(<<"v","1",".","1",".","0","-","d","e","v","e","l","o","p","m","e","n","t","+","a","b","c">>, 1, TagCommit(1, SHA1), FALSE),
    ReleaseEdge(<<"v","1",".","2",".","0","-","d","e","v","e","l","o","p","m","e","n","t","+","a","b","c">>, 4, TagCommit(2, SHA1), FALSE),
    ReleaseEdge(<<"v","1",".","3",".","0","-","d","e","v","e","l","o","p","m","e","n","t","+","a","b","c">>, 1, TagCommit(4, SHA1), FALSE),
    ReleaseEdge(<<"v","1",".","4",".","0","-","d","e","v","e","l","o","p","m","e","n","t","+","a","b","c">>, 1, TagCommit(1, SHA1), TRUE),
    ReleaseEdge(<<"v","1",".","5",".","0","-","d","e","v","e","l","o","p","m","e","n","t","+","a","b","c">>, 1, NullTagCommit, FALSE),
    ReleaseEdge(<<"l","a","t","e","s","t">>, 1, TagCommit(1, SHA1), FALSE),
    NodelessEdge,
    NullEdge }

RcEdges ==
  { ReleaseEdge(<<"v","1",".","0",".","0">>, 1, TagCommit(1, SHA1), FALSE),
    ReleaseEdge(<<"v","1",".","1",".","0">>, 2, TagCommit(1, SHA1), FALSE),
    ReleaseEdge(<<"v","1",".","1",".","0","-","r","c",".","1","+","a","b","c">>, 1, TagCommit(1, SHA1), FALSE),
    ReleaseEdge(<<"v","1",".","1",".","0","-","r","c",".","2","+","a","b","c">>, 2, TagCommit(1, SHA1), FALSE),
    ReleaseEdge(<<"v","1",".","1",".","0","-","r","c",".","3","+","a","b","c">>, 3, TagCommit(1, SHA1), FALSE),
    ReleaseEdge(<<"v","1",".","1",".","0","-","r","c",".","4","+","a","b","c">>, 4, TagCommit(1, SHA1), FALSE),
    ReleaseEdge(<<"r","c","-","n","o","t","e","s">>, 2, TagCommit(1, SHA1), FALSE) }

\* development releases with small numbers and with a major number of 1e21
NumberEdges ==
  { ReleaseEdge(<<"v","1",".","2",".","3","-","d","e","v","e","l","o","p","m","e","n","t","+","a","b","c">>, 1, TagCommit(1, SHA1), FALSE),
    ReleaseEdge(<<"v","0",".","0",".","9","-","d","e","v","e","l","o","p","m","e","n","t","+","a","b","c">>, 1, TagCommit(1, SHA1), FALSE),
    ReleaseEdge(<<"v","1","0","0","0","0","0","0","0","0","0","0","0","0","0","0","0","0","0","0","0","0","0",".","0",".","0","-","d","e","v","e","l","o","p","m","e","n","t","+","a","b","c">>, 1,
                TagCommit(1, SHA1), FALSE) }

LoadEdgeA == ReleaseEdge(<<"v","1",".","0",".","0">>, 1, TagCommit(1, SHA1), FALSE)

LoadEdgeB == ReleaseEdge(<<"v","1",".","1",".","0","-","d","e","v","e","l","o","p","m","e","n","t","+","a","b","c">>, 1, TagCommit(1, SHA1), FALSE)

\* the edges of one page: none, one, two in either order, the same release
\* twice, and a page with a null among its edges
LoadEdgeLists ==
  { << >>, <<LoadEdgeA>>, <<LoadEdgeA, LoadEdgeB>>, <<LoadEdgeB, LoadEdgeA>>,
    <<LoadEdgeA, LoadEdgeA>>, <<NullEdge, LoadEdgeB>> }

Cursors == {"c1", "c2"}

\* release names: the three numbers with their separators, and what follows
NameHeads ==
  { <<"v","1",".","2",".","3">>, <<"v","1","0",".","0",".","7">>, <<"V","1",".","2",".","3">>, <<"v","1","x","2","y","3">>, <<"v","1","2","3","4","5">>, <<"v","1",".","2">>,
    <<"1",".","2",".","3">>, <<"v","1",".","2",".","3",".","4">>, <<"x","v","1",".","2",".","3">>, <<"v","1",".","2",".","x">> }

NameTails ==
  { EmptyString, <<"-","d","e","v","e","l","o","p","m","e","n","t","+","a","b","c","1","2","3">>, <<"-","r","c",".","2","+","0","f","9">>, <<"-","r","c",".","1","1","+","a">>,
    <<"-","D","e","v","e","l","o","p","m","e","n","t","+","a","b","c">>, <<"-","R","C",".","2","+","A","B","C">>, <<"-","r","c",".","2","+","A","B","C">>, <<"-","r","c","x","2","+","a","b","c">>,
    <<"-","r","c",".","2">>, <<"-","r","c","+","a","b","c">>, <<"-","d","e","v","e","l","o","p","m","e","n","t">>, <<"-","d","e","v","e","l","o","p","m","e","n","t","+","x","y","z">>,
    <<"-","p","r","o","d","u","c","t","i","o","n","+","a","b","c">>, <<"\n","v","7",".","8",".","9">>, <<" ">> }

ReleaseNames == {head \o tail : head \in NameHeads, tail \in NameTails} \cup {EmptyString}

\* the replies the GetReleases query may give
Pages(f) ==
  (IF f = "series" THEN {} ELSE {ErrorPage}) \cup
  (IF f = "bump"
     THEN {Page(edges, NullCursor, FALSE) : edges \in SeqUpTo(BumpEdges, 1)}
   ELSE IF f = "baseline"
     THEN {Page(edges, NullCursor, FALSE) : edges \in SeqUpTo(BaselineEdges, MaxEdges)}
   ELSE IF f = "rc"
     THEN {Page(edges, NullCursor, FALSE) : edges \in SeqUpTo(RcEdges, MaxRcEdges)}
   ELSE IF f = "config"
     THEN {Page(edges, NullCursor, FALSE) : edges \in {<< >>, <<LoadEdgeA>>}}
   ELSE IF f = "parse"
     THEN {Page(<<ReleaseEdge(name, 1, TagCommit(1, SHA1), FALSE)>>, NullCursor, FALSE) :
             name \in ReleaseNames}
   ELSE IF f = "sinks"
     THEN {Page(edges, NullCursor, FALSE) : edges \in SeqUpTo(BumpEdges, 1)}
   ELSE IF f = "order"
     THEN {Page(<< >>, NullCursor, FALSE)}
   ELSE IF f = "numbers"
     THEN {Page(edges, NullCursor, FALSE) : edges \in SeqUpTo(NumberEdges, 1)}
   ELSE IF f = "plain"
     THEN {Page(<< >>, NullCursor, FALSE)}
   ELSE IF f = "series"
     THEN {Page(edges, NullCursor, FALSE) : edges \in Reordered(catalog)}
   ELSE {NoRepositoryPage} \cup
        {Page(edges, cursor, more) :
           edges \in LoadEdgeLists,
           cursor \in Cursors, more \in BOOLEAN})

\* the commit messages compareCommits may return, oldest first
DevHistories(f) ==
  IF f = "bump" THEN SeqUpTo(Messages, MaxCommits)
  ELSE IF f = "config" THEN SeqUpTo(Messages, 1)
  ELSE IF f = "sinks" THEN {<< >>, << <<"f","i","x",":"," ","a">> >>, << <<"f","e","a","t",":"," ","b">>, <<"d","o","c","s",":"," ","d">> >>}
  ELSE IF f = "order" THEN SeqUpTo(OrderMessages, MaxCommits)
  ELSE IF f = "numbers" THEN {<< >>, << <<"f","i","x",":"," ","a">> >>, << <<"f","e","a","t",":"," ","b">> >>}
  ELSE IF f = "series" THEN {RangeAfter(lastDevRelease.sha)}
  ELSE {<< >>}

ProdHistories(f) ==
  IF f = "bump" THEN {<< >>, << <<"f","i","x",":"," ","a">> >>, << <<"d","o","c","s",":"," ","d">>, <<"f","i","x","u","p"," ","e">> >>}
  ELSE IF f = "sinks" THEN {<< >>, << <<"f","i","x",":"," ","a">> >>}
  ELSE IF f = "order"
    THEN {<< >>, << <<"f","i","x",":"," ","a">>, <<"f","i","x",":"," ","b">> >>, << <<"c","h","o","r","e",":"," ","c">>, <<"f","i","x",":"," ","b">>, <<"c","h","o","r","e",":"," ","c">> >>}
  ELSE IF f = "series" THEN {RangeAfter(lastProductionRelease.sha)}
  ELSE {<< >>}

\* the sha of the tag object createTag answers with
TagObjectSha == <<"7","a","9","7","a","9","7">>

\* core.getInput("slack_channel")
SlackChannel == <<"r","e","l","e","a","s","e","s">>

\* a release variable that is not assigned yet
NoRelease == ZeroBaseline(Undefined)

NoOutputs ==
  [version |-> Undefined, normalisedVersion |-> Undefined, versionNumber |-> Undefined]

\* nothing created yet
NoTag == [created |-> FALSE, tag |-> Undefined, message |-> Undefined, object |-> Undefined]

NoRef == [created |-> FALSE, ref |-> Undefined, sha |-> Undefined]

NoCreatedRelease ==
  [created |-> FALSE, tag_name |-> Undefined, name |-> Undefined, body |-> Undefined,
   draft |-> FALSE, prerelease |-> FALSE]

NoNotification ==
  [created |-> FALSE, channels |-> Undefined, content |-> Undefined, title |-> Undefined,
   version |-> Undefined, targetBranch |-> Undefined]

InitFocus(f) ==
  /\ focus = f
  /\ pc = "start"
  /\ GITHUB_REF \in {EmptyString, <<"r","e","f","s","/","h","e","a","d","s","/","m","a","i","n">>}
  /\ GITHUB_SHA \in {EmptyString, TriggerSha}
  /\ GITHUB_TOKEN \in {EmptyString, <<"t","o","k","e","n">>}
  /\ releaseType \in ChannelsOf(f)
  /\ DRY_RUN \in {S_true, S_false}
  /\ allEdges = << >>
  /\ hasNextPage = TRUE
  /\ currentCursor = NullCursor
  /\ requests = 0
  /\ received = << >>
  /\ previousCursor = NullCursor
  /\ releases = << >>
  /\ date = NaN
  /\ lastProductionRelease = NoRelease
  /\ lastDevRelease = NoRelease
  /\ historyDev = << >>
  /\ historyProd = << >>
  /\ newVersion = Undefined
  /\ metadata = Undefined
  /\ outputs = NoOutputs
  /\ changelog = Undefined
  /\ failures = << >>
  /\ calls = << >>
  /\ tag = NoTag
  /\ ref = NoRef
  /\ release = NoCreatedRelease
  /\ notification = NoNotification
  /\ catalog = << >>
  /\ commits = << >>

\* the first run of a series: on the second commit of the branch
InitSeries ==
  /\ focus = "series"
  /\ pc = "start"
  /\ GITHUB_REF = <<"r","e","f","s","/","h","e","a","d","s","/","m","a","i","n">>
  /\ GITHUB_SHA = CommitSha(2)
  /\ GITHUB_TOKEN = <<"t","o","k","e","n">>
  /\ releaseType \in {S_development, S_rc}
  /\ DRY_RUN = S_false
  /\ allEdges = << >>
  /\ hasNextPage = TRUE
  /\ currentCursor = NullCursor
  /\ requests = 0
  /\ received = << >>
  /\ previousCursor = NullCursor
  /\ releases = << >>
  /\ date = NaN
  /\ lastProductionRelease = NoRelease
  /\ lastDevRelease = NoRelease
  /\ historyDev = << >>
  /\ historyProd = << >>
  /\ newVersion = Undefined
  /\ metadata = Undefined
  /\ outputs = NoOutputs
  /\ changelog = Undefined
  /\ failures = << >>
  /\ calls = << >>
  /\ tag = NoTag
  /\ ref = NoRef
  /\ release = NoCreatedRelease
  /\ notification = NoNotification
  /\ catalog \in InitialCatalogs(releaseType)
  /\ \E message \in SeriesMessages, authored \in {2, 2 + Latency} :
       commits = << Commit(<<"f","i","x",":"," ","a">>, 2), Commit(message, authored) >>

Init ==
  \/ InitSeries
  \/ \E f \in {"bump", "baseline", "rc", "load", "config", "parse", "order", "numbers",
           "sinks"} : InitFocus(f)

InitBump == InitFocus("bump")

InitBaseline == InitFocus("baseline")

InitRc == InitFocus("rc")

InitLoad == InitFocus("load")

InitConfig == InitFocus("config")

InitParse == InitFocus("parse")

InitOrder == InitFocus("order")

InitNumbers == InitFocus("numbers")

InitSinks == InitFocus("sinks")

(***************************************************************************)
(* run                                                                     *)
(***************************************************************************)
\* a faulty variant of isDryRun: the variable is compared with the boolean
isDryRunComparedWithBoolean == FALSE

isDryRun == DRY_RUN = S_true

\* the pool the platform's answers are drawn from
Depth == IF isDryRun \/ focus \in {"sinks", "series"} THEN focus ELSE "plain"

\* core.setFailed after the calls `made`
setFailed(made, message) ==
  /\ failures' = Append(failures, message)
  /\ calls' = calls \o made \o <<"setFailed">>

\* the calls `made`, none of them a failure report
Called(made) ==
  /\ calls' = calls \o made
  /\ UNCHANGED failures

targetBranch ==
  IF releaseType = S_rc THEN <<"q","a">>
  ELSE IF releaseType = S_production THEN S_production
  ELSE S_development

\* the configuration checks before the first request
CheckConfig ==
  /\ pc = "start"
  /\ IF GITHUB_REF = EmptyString
     THEN setFailed(<< >>, "Missing GITHUB_REF") /\ pc' = "done"
     ELSE IF GITHUB_SHA = EmptyString
     THEN setFailed(<< >>, "Missing GITHUB_SHA") /\ pc' = "done"
     ELSE IF GITHUB_TOKEN = EmptyString
     THEN setFailed(<< >>, "Missing GITHUB_TOKEN") /\ pc' = "done"
     ELSE pc' = "getReleases" /\ Called(<< >>)
  /\ UNCHANGED <<focus, world, env, loader, releases, baselines, historyDev, historyProd,
                 results, sinks>>

\* a faulty variant of FetchPage: the loop goes on as long as the page had
\* edges, whatever pageInfo.hasNextPage says
FetchPageWhileEdges ==
  /\ pc = "getReleases"
  /\ requests < MaxRequests
  /\ requests' = requests + 1
  /\ \/ \E page \in Pages(Depth) :
          IF page.errors
          THEN /\ setFailed(<<"query">>, "Workflow failed! Error getting previous releases")
               /\ releases' = << >>
               /\ pc' = "getCommit"
               /\ UNCHANGED <<allEdges, hasNextPage, currentCursor, received, previousCursor>>
          ELSE /\ allEdges' = allEdges \o PushedEdges(page)
               /\ received' = received \o page.edges
               /\ previousCursor' = currentCursor
               /\ currentCursor' = page.endCursor
               /\ hasNextPage' = page.hasNextPage
               /\ IF Len(page.edges) > 0
                  THEN pc' = "getReleases" /\ UNCHANGED releases
                  ELSE pc' = "getCommit" /\ releases' = returnableData(allEdges')
               /\ Called(<<"query">>)
     \/ /\ setFailed(<<"query">>, "Workflow failed! query")
        /\ pc' = "done"
        /\ UNCHANGED <<allEdges, hasNextPage, currentCursor, received, previousCursor,
                       releases>>
  /\ UNCHANGED <<focus, world, env, baselines, historyDev, historyProd, results, sinks>>

\* getReleases: one turn of the do-while loop, and what follows the loop
\* when the page was the last one
FetchPage ==
  /\ pc = "getReleases"
  /\ requests < MaxRequests
  /\ requests' = requests + 1
  /\ \/ \E page \in Pages(Depth) :
          IF page.errors
          THEN /\ setFailed(<<"query">>, "Workflow failed! Error getting previous releases")
               /\ releases' = << >>
               /\ pc' = "getCommit"
               /\ UNCHANGED <<allEdges, hasNextPage, currentCursor, received, previousCursor>>
          ELSE /\ allEdges' = allEdges \o PushedEdges(page)
               /\ received' = received \o page.edges
               /\ previousCursor' = currentCursor
               /\ currentCursor' = page.endCursor
               /\ hasNextPage' = page.hasNextPage
               /\ IF page.hasNextPage
                  THEN pc' = "getReleases" /\ UNCHANGED releases
                  ELSE pc' = "getCommit" /\ releases' = returnableData(allEdges')
               /\ Called(<<"query">>)
     \/ /\ setFailed(<<"query">>, "Workflow failed! query")       \* the request throws
        /\ pc' = "done"
        /\ UNCHANGED <<allEdges, hasNextPage, currentCursor, received, previousCursor,
                       releases>>
  /\ UNCHANGED <<focus, world, env, baselines, historyDev, historyProd, results, sinks>>

\* octokit.rest.git.getCommit and the selection of the two baselines
GetCommit ==
  /\ pc = "getCommit"
  /\ \/ \E reply \in TriggerDatesOf(Depth) :
            /\ date' = reply
            /\ lastProductionRelease' = selectProductionBaseline(releases, reply)
            /\ lastDevRelease' = selectDevelopmentBaseline(releases, reply)
            /\ pc' = "compareDev"
            /\ Called(<<"getCommit">>)
     \/ /\ setFailed(<<"getCommit">>, "Workflow failed! getCommit")   \* the request throws
        /\ pc' = "done"
        /\ UNCHANGED baselines
  /\ UNCHANGED <<focus, world, env, loader, releases, historyDev, historyProd, results, sinks>>

\* compareCommits from the development baseline
CompareDevCommits ==
  /\ pc = "compareDev"
  /\ \/ \E reply \in DevHistories(Depth) :
            /\ historyDev' = reply
            /\ pc' = "compareProd"
            /\ Called(<<"compareCommits">>)
     \/ /\ setFailed(<<"compareCommits">>, "Workflow failed! compareCommits")
        /\ pc' = "done"
        /\ UNCHANGED historyDev
  /\ UNCHANGED <<focus, world, env, loader, releases, baselines, historyProd, results, sinks>>

\* compareCommits from the production baseline, then the version, the
\* changelog and the outputs
CompareProdCommits ==
  /\ pc = "compareProd"
  /\ \/ \E reply \in ProdHistories(Depth) :
            /\ historyProd' = reply
            /\ newVersion' = newVersionOf(releaseType, lastDevRelease, historyDev)
            /\ metadata' = metadataOf(releaseType, GITHUB_SHA, releases,
                                      lastProductionRelease, date)
            /\ changelog' = generateChangelog(releaseType, historyDev, reply)
            /\ outputs' =
                 [version |-> newVersion' \o metadata',
                  normalisedVersion |-> replaceFirst(newVersion' \o metadata', <<"+">>, <<"-">>),
                  versionNumber |-> replaceFirst(newVersion', <<"v">>, EmptyString)]
            /\ pc' = IF isDryRun THEN "done" ELSE "createTag"
            /\ Called(<<"compareCommits", "setOutput", "setOutput", "setOutput">>)
     \/ /\ setFailed(<<"compareCommits">>, "Workflow failed! compareCommits")
        /\ pc' = "done"
        /\ UNCHANGED <<historyProd, results>>
  /\ UNCHANGED <<focus, world, env, loader, releases, baselines, historyDev, sinks>>

\* a faulty variant of CreateTag: a request that throws is ignored
CreateTagFailureIgnored ==
  /\ pc = "createTag"
  /\ \/ /\ tag' = [created |-> TRUE, tag |-> newVersion \o metadata,
                   message |-> newVersion \o metadata, object |-> GITHUB_SHA]
        /\ pc' = "createRef"
        /\ Called(<<"createTag">>)
     \/ /\ Called(<<"createTag">>)
        /\ pc' = "createRef"
        /\ UNCHANGED tag
  /\ UNCHANGED <<focus, world, env, loader, releases, baselines, historyDev, historyProd,
                 results, ref, release, notification>>

\* octokit.rest.git.createTag
CreateTag ==
  /\ pc = "createTag"
  /\ \/ /\ tag' = [created |-> TRUE, tag |-> newVersion \o metadata,
                   message |-> newVersion \o metadata, object |-> GITHUB_SHA]
        /\ pc' = "createRef"
        /\ Called(<<"createTag">>)
     \/ /\ setFailed(<<"createTag">>, "Workflow failed! createTag")   \* the request throws
        /\ pc' = "done"
        /\ UNCHANGED tag
  /\ UNCHANGED <<focus, world, env, loader, releases, baselines, historyDev, historyProd,
                 results, ref, release, notification>>

\* octokit.rest.git.createRef
CreateRef ==
  /\ pc = "createRef"
  /\ \/ /\ ref' = [created |-> TRUE, ref |-> <<"r","e","f","s","/","t","a","g","s","/">> \o newVersion \o metadata,
                   sha |-> TagObjectSha]
        /\ pc' = "createRelease"
        /\ Called(<<"createRef">>)
     \/ /\ setFailed(<<"createRef">>, "Workflow failed! createRef")   \* the request throws
        /\ pc' = "done"
        /\ UNCHANGED ref
  /\ UNCHANGED <<focus, world, env, loader, releases, baselines, historyDev, historyProd,
                 results, tag, release, notification>>

\* a faulty variant of CreateRelease: the release is named by the
\* normalised version
CreateReleaseNormalised ==
  /\ pc = "createRelease"
  /\ \/ /\ release' = [created |-> TRUE, tag_name |-> newVersion \o metadata,
                       name |-> outputs.normalisedVersion, body |-> changelog,
                       draft |-> FALSE, prerelease |-> releaseType # S_production]
        /\ catalog' = Append(catalog, ReleaseEdge(outputs.normalisedVersion, date + Latency,
                                                  TagCommit(date, GITHUB_SHA), FALSE))
        /\ pc' = "upload"
        /\ Called(<<"createRelease">>)
     \/ /\ setFailed(<<"createRelease">>, "Workflow failed! createRelease")
        /\ pc' = "done"
        /\ UNCHANGED <<release, catalog>>
  /\ UNCHANGED <<focus, commits, env, loader, releases, baselines, historyDev, historyProd,
                 results, tag, ref, notification>>

\* octokit.rest.repos.createRelease: the release enters the catalog, dated
\* by the platform, on the tag of the triggering commit
CreateRelease ==
  /\ pc = "createRelease"
  /\ \/ /\ release' = [created |-> TRUE, tag_name |-> newVersion \o metadata,
                       name |-> newVersion \o metadata, body |-> changelog,
                       draft |-> FALSE, prerelease |-> releaseType # S_production]
        /\ catalog' = Append(catalog, ReleaseEdge(newVersion \o metadata, date + Latency,
                                                  TagCommit(date, GITHUB_SHA), FALSE))
        /\ pc' = "upload"
        /\ Called(<<"createRelease">>)
     \/ /\ setFailed(<<"createRelease">>, "Workflow failed! createRelease")
        /\ pc' = "done"
        /\ UNCHANGED <<release, catalog>>
  /\ UNCHANGED <<focus, commits, env, loader, releases, baselines, historyDev, historyProd,
                 results, tag, ref, notification>>

\* slackClient.files.upload; the initial comment is kept as the values its
\* template is filled with
UploadChangelog ==
  /\ pc = "upload"
  /\ \/ /\ notification' = [created |-> TRUE, channels |-> SlackChannel,
                            content |-> changelog, title |-> <<"C","h","a","n","g","e","l","o","g">>,
                            version |-> newVersion \o metadata,
                            targetBranch |-> targetBranch]
        /\ Called(<<"upload">>)
     \/ /\ setFailed(<<"upload">>, "Workflow failed! upload")         \* the request throws
        /\ UNCHANGED notification
  /\ pc' = "done"
  /\ UNCHANGED <<focus, world, env, loader, releases, baselines, historyDev, historyProd,
                 results, tag, ref, release>>

\* a commit is pushed after a run that created its release, and triggers
\* the next run
StartNextRun ==
  /\ focus = "series"
  /\ pc = "done"
  /\ release.created
  /\ Len(commits) <= MaxRuns
  /\ \E message \in SeriesMessages, authored \in {date, date + Latency} :
       commits' = Append(commits, Commit(message, authored))
  /\ GITHUB_SHA' = CommitSha(Len(commits) + 1)
  /\ pc' = "start"
  /\ allEdges' = << >>
  /\ hasNextPage' = TRUE
  /\ currentCursor' = NullCursor
  /\ requests' = 0
  /\ received' = << >>
  /\ previousCursor' = NullCursor
  /\ releases' = << >>
  /\ date' = NaN
  /\ lastProductionRelease' = NoRelease
  /\ lastDevRelease' = NoRelease
  /\ historyDev' = << >>
  /\ historyProd' = << >>
  /\ newVersion' = Undefined
  /\ metadata' = Undefined
  /\ outputs' = NoOutputs
  /\ changelog' = Undefined
  /\ failures' = << >>
  /\ calls' = << >>
  /\ tag' = NoTag
  /\ ref' = NoRef
  /\ release' = NoCreatedRelease
  /\ notification' = NoNotification
  /\ UNCHANGED <<focus, GITHUB_REF, GITHUB_TOKEN, releaseType, DRY_RUN, catalog>>

Next ==
  \/ CheckConfig
  \/ FetchPage
  \/ GetCommit
  \/ CompareDevCommits
  \/ CompareProdCommits
  \/ CreateTag
  \/ CreateRef
  \/ CreateRelease
  \/ UploadChangelog

\* the runs of a series
NextSeries ==
  \/ Next
  \/ StartNextRun

Spec == Init /\ [][Next]_vars

SpecBump == InitBump /\ [][Next]_vars

SpecBaseline == InitBaseline /\ [][Next]_vars

SpecRc == InitRc /\ [][Next]_vars

SpecLoad == InitLoad /\ [][Next]_vars

SpecConfig == InitConfig /\ [][Next]_vars

SpecParse == InitParse /\ [][Next]_vars

SpecOrder == InitOrder /\ [][Next]_vars

SpecNumbers == InitNumbers /\ [][Next]_vars

SpecSinks == InitSinks /\ [][Next]_vars

SpecSeries == InitSeries /\ [][NextSeries]_vars

(***************************************************************************)
(* Properties                                                              *)
(***************************************************************************)
\* the run reached its end and set its outputs
Ran == pc = "done" /\ outputs.version # Undefined

\* the two baselines are selected
Selected == date # NaN

\* the change category of a commit message: the message, trimmed and in
\* lower case, starts with the literal token of the category
Classify(message) ==
  LET m == toLowerCase(trim(message))
  IN  IF startsWith(m, <<"b","r","e","a","k","i","n","g",":">>) THEN "Breaking"
      ELSE IF startsWith(m, <<"f","e","a","t",":">>) THEN "Feature"
      ELSE IF startsWith(m, <<"f","i","x",":">>) THEN "Fix"
      ELSE IF startsWith(m, <<"c","h","o","r","e",":">>) THEN "Chore"
      ELSE IF startsWith(m, <<"t","a","s","k",":">>) THEN "Task"
      ELSE IF startsWith(m, <<"r","e","f","a","c","t","o","r",":">>) THEN "Refactor"
      ELSE "none"

Categories(history) == {Classify(history[i]) : i \in 1..Len(history)}

\* the numbers the bump rule gives for a range of classified commits
ExpectedNumbers(old, history) ==
  IF "Breaking" \in Categories(history)
  THEN [major |-> old.major + 1, minor |-> 0, patch |-> 0]
  ELSE IF "Feature" \in Categories(history)
  THEN [major |-> old.major, minor |-> old.minor + 1, patch |-> 0]
  ELSE IF Categories(history) \cap {"Fix", "Chore", "Task", "Refactor"} # {}
  THEN [major |-> old.major, minor |-> old.minor, patch |-> old.patch + 1]
  ELSE [major |-> old.major, minor |-> old.minor, patch |-> old.patch]

ShortHash == substring0(GITHUB_SHA, 7)

\* the lines of a text
RECURSIVE Lines(_)
Lines(text) ==
  LET breaks == {i \in 1..Len(text) : text[i] = "\n"}
  IN  IF breaks = {} THEN {text}
      ELSE LET b == CHOOSE i \in breaks : \A j \in breaks : i <= j
           IN  {SubSeq(text, 1, b - 1)} \cup Lines(SubSeq(text, b + 1, Len(text)))

\* C1: on the development channel the new version is the development
\* baseline bumped by the most severe category among the commits of the
\* range (Breaking: major, Feature: minor, Fix, Chore, Task, Refactor: patch,
\* none: unchanged), followed by "-development+" and the first 7 characters
\* of the triggering hash.
C1_DevelopmentBump ==
  (Ran /\ releaseType = S_development) =>
    outputs.version =
      VersionString(ExpectedNumbers(lastDevRelease.versionInfo, historyDev))
        \o <<"-","d","e","v","e","l","o","p","m","e","n","t","+">> \o ShortHash

\* C2: a commit that starts with none of the six tokens changes no version
\* number (a range made only of such commits leaves major.minor.patch as the
\* baseline has it) and is no entry of the changelog.
C2_UnclassifiedIgnored ==
  Ran =>
    /\ Categories(historyDev) \subseteq {"none"} =>
         newVersion = VersionString(lastDevRelease.versionInfo)
    /\ \A history \in {historyDev, historyProd} : \A i \in 1..Len(history) :
         Classify(history[i]) = "none" =>
           (<<"-"," ">> \o history[i]) \notin Lines(changelog)

\* the rc releases of the catalog dated after the production baseline and
\* no later than `bound`
RcReleasesUpTo(bound) ==
  {i \in 1..Len(releases) :
     /\ releases[i].versionInfo.releaseType = S_rc
     /\ lastProductionRelease.releaseDate # EmptyDate
     /\ releases[i].releaseDate > lastProductionRelease.releaseDate
     /\ releases[i].releaseDate <= bound}

RcSuffix(ordinal) == <<"-","r","c",".">> \o NumberToString(ordinal) \o <<"+">> \o ShortHash

\* C3, as the specification states it: the rc ordinal is 1 + the number of
\* rc releases dated after the production baseline and no later than the
\* triggering commit.
C3_RcOrdinalUpToTrigger ==
  (Ran /\ releaseType = S_rc) =>
    metadata = RcSuffix(1 + Cardinality(RcReleasesUpTo(date)))

\* C3, amended: the rc ordinal is 1 + the number of rc releases dated after
\* the production baseline and no later than one millisecond after the
\* triggering commit (none when the baseline is the synthetic one), and the
\* suffix is "-rc.<ordinal>+<first 7 characters of the hash>".
C3_RcOrdinal ==
  (Ran /\ releaseType = S_rc) =>
    metadata = RcSuffix(1 + Cardinality(RcReleasesUpTo(date + 1)))

\* one rc release, dated one millisecond after the trigger, is counted, and a
\* later one is not
C3_Witness ==
  /\ Ran /\ releaseType = S_rc
  /\ Cardinality(RcReleasesUpTo(date + 1)) = 1
  /\ Cardinality(RcReleasesUpTo(date)) = 0
  /\ \E i \in 1..Len(releases) :
       releases[i].versionInfo.releaseType = S_rc /\ releases[i].releaseDate > date + 1

\* C4: on the rc channel the numbers of the new version are those of the
\* development baseline, whatever the commits are.
C4_RcKeepsNumbers ==
  (Ran /\ releaseType = S_rc) =>
    /\ newVersion = VersionString(lastDevRelease.versionInfo)
    /\ outputs.versionNumber = Tail(VersionString(lastDevRelease.versionInfo))

\* an rc run from v1.2.3 over a range with a breaking change and a feature
C4_Witness ==
  /\ Ran /\ releaseType = S_rc
  /\ lastDevRelease.name = <<"v","1",".","2",".","3","-","d","e","v","e","l","o","p","m","e","n","t","+","a","b","c">>
  /\ {"Breaking", "Feature"} \subseteq Categories(historyDev)

\* C5: on the production channel the version is "v<major>.<minor>.<patch>"
\* of the development baseline, without suffix, whatever the commits are.
C5_ProductionVersion ==
  (Ran /\ releaseType = S_production) =>
    outputs.version = VersionString(lastDevRelease.versionInfo)

\* a production run from v0.9.9 over a range with a fix and a feature
C5_Witness ==
  /\ Ran /\ releaseType = S_production
  /\ outputs.version = <<"v","0",".","9",".","9">>
  /\ {"Fix", "Feature"} \subseteq Categories(historyDev)

\* a release qualifies as production baseline / as development baseline
QualifiesProduction(r) ==
  /\ r.versionInfo.releaseType = S_production
  /\ ~r.isDraft
  /\ r.releaseDate # EmptyDate /\ r.releaseDate <= date

QualifiesDevelopment(r) ==
  /\ r.versionInfo.releaseType = S_development
  /\ ~r.isDraft
  /\ r.tagDate # EmptyDate /\ r.tagDate <= date

QualifyingProduction == {i \in 1..Len(releases) : QualifiesProduction(releases[i])}

QualifyingDevelopment == {i \in 1..Len(releases) : QualifiesDevelopment(releases[i])}

\* C6: the production baseline is the qualifying release with the latest
\* releaseDate, the earliest in input order among those with that date,
\* whatever the order of the catalog is.
C6_LatestProductionBaseline ==
  (Selected /\ QualifyingProduction # {}) =>
    \E i \in QualifyingProduction :
      /\ lastProductionRelease = releases[i]
      /\ \A j \in QualifyingProduction :
           \/ releases[j].releaseDate < releases[i].releaseDate
           \/ releases[j].releaseDate = releases[i].releaseDate /\ i <= j

\* C7: the development baseline, when one is selected, is a release of the
\* catalog that is development-typed, not a draft and tagged no later than
\* the trigger; the tag date alone decides: one is selected as soon as such
\* a release exists, whatever its releaseDate is.
C7_DevelopmentBaselineByTagDate ==
  Selected =>
    /\ lastDevRelease # ZeroBaseline(S_development) =>
         /\ \E i \in 1..Len(releases) : releases[i] = lastDevRelease
         /\ QualifiesDevelopment(lastDevRelease)
    /\ QualifyingDevelopment # {} =>
         lastDevRelease # ZeroBaseline(S_development)

\* the baseline was released after the trigger, and the catalog holds a
\* development release tagged after the trigger but released before it
C7_Witness ==
  /\ Selected
  /\ lastDevRelease.versionInfo.releaseType = S_development
  /\ lastDevRelease.tagDate # EmptyDate
  /\ lastDevRelease.releaseDate > date
  /\ \E i \in 1..Len(releases) :
       /\ releases[i].versionInfo.releaseType = S_development
       /\ ~releases[i].isDraft
       /\ releases[i].tagDate > date /\ releases[i].releaseDate <= date

\* C8: without a qualifying release the baseline is the zero baseline of its
\* type, with empty name, dates and hash; with no release at all, on the
\* production channel and with no commit, the version is "v0.0.0" and the
\* changelog is the fallback line.
C8_ZeroBaseline ==
  /\ Selected =>
       /\ QualifyingProduction = {} =>
            /\ lastProductionRelease.versionInfo.releaseType = S_production
            /\ <<lastProductionRelease.versionInfo.major,
                 lastProductionRelease.versionInfo.minor,
                 lastProductionRelease.versionInfo.patch>> = <<0, 0, 0>>
            /\ lastProductionRelease.releaseDate = EmptyDate
            /\ lastProductionRelease.tagDate = EmptyDate
            /\ lastProductionRelease.sha = EmptyString
       /\ QualifyingDevelopment = {} =>
            /\ lastDevRelease.versionInfo.releaseType = S_development
            /\ <<lastDevRelease.versionInfo.major, lastDevRelease.versionInfo.minor,
                 lastDevRelease.versionInfo.patch>> = <<0, 0, 0>>
            /\ lastDevRelease.releaseDate = EmptyDate
            /\ lastDevRelease.tagDate = EmptyDate
            /\ lastDevRelease.sha = EmptyString
  /\ (Ran /\ received = << >> /\ releaseType = S_production
          /\ historyDev = << >> /\ historyProd = << >>) =>
       /\ outputs.version = <<"v","0",".","0",".","0">>
       /\ changelog = <<"G","e","n","e","r","a","l"," ","b","u","g"," ","f","i","x","e","s"," ","a","n","d"," ","i","m","p","r","o","v","e","m","e","n","t","s","\n">>

\* a production run over an empty catalog and empty commit ranges
C8_Witness ==
  /\ Ran /\ requests = 1 /\ received = << >> /\ failures = << >>
  /\ releaseType = S_production
  /\ historyDev = << >> /\ historyProd = << >>
  /\ lastProductionRelease.name = EmptyString
  /\ lastDevRelease.name = EmptyString

\* the load of the catalog ended without error
Loaded == pc # "start" /\ pc # "getReleases" /\ failures = << >>

\* C9: after a load without error, allEdges is the concatenation of the
\* edges of the pages, in the order received, each exactly once, and the
\* catalog holds the releases among them whose name is a version, in that
\* order.
C9_EdgesInOrderReceived ==
  (Loaded /\ requests > 0) =>
    /\ allEdges = SelectSeq(received, LAMBDA e : ~e.isNull)
    /\ LET versions == SelectSeq(allEdges, LAMBDA e :
                          ~e.node.isNull /\ extractVersionInfo(e.node.name).defined)
       IN  [i \in 1..Len(releases) |-> releases[i].name]
             = [i \in 1..Len(versions) |-> versions[i].node.name]

\* pages of 2, 2 and 0 edges
C9_Witness ==
  /\ Loaded /\ requests = 3 /\ ~hasNextPage
  /\ Len(received) = 4 /\ Len(releases) = 4
  /\ received[1] # received[2] /\ received[3] = received[2]

\* the last two pages both announced a next page and reported one cursor
Stalled == requests >= 2 /\ hasNextPage /\ currentCursor = previousCursor

\* C10: when two consecutive pages report the same cursor and a next page,
\* the load stops with a failure instead of asking for that cursor again.
C10_StallIsFatal ==
  Stalled => (pc # "getReleases" /\ failures # << >>)

\* C11: the load ends with the first page that reports hasNextPage = false
\* (after one request if that is the first page, empty or not) and asks for
\* a further page after every page that reports hasNextPage = true, also one
\* without edges.
C11_LoadEndsWithLastPage ==
  /\ (requests > 0 /\ ~hasNextPage) => pc \notin {"start", "getReleases"}
  /\ (requests = 1 /\ ~hasNextPage /\ received = << >>) => releases = << >>
  /\ (requests > 0 /\ hasNextPage /\ failures = << >>) => pc = "getReleases"

\* the first page had no edge and announced a next page, the second request
\* asked for what follows the cursor of the first page, and its page, again
\* without edge, was the last one
C11_Witness ==
  /\ requests = 2 /\ failures = << >>
  /\ ~hasNextPage /\ pc = "getCommit"
  /\ previousCursor \in Cursors
  /\ received = << >> /\ releases = << >>

\* C12: once a fetch of a release page or of a commit range has reported an
\* error, the run sets no output and builds no changelog.
C12_ErrorAbortsRun ==
  failures # << >> => (outputs = NoOutputs /\ changelog = Undefined)

\* C13: with the triggering hash, the channel or the credential missing, no
\* request is made: the run is still before its first request, or it has
\* ended with a failure.
C13_MissingContextFailsFirst ==
  (GITHUB_SHA = EmptyString \/ releaseType = EmptyString \/ GITHUB_TOKEN = EmptyString) =>
    /\ requests = 0
    /\ pc \in {"start", "getReleases", "done"}
    /\ pc = "done" => failures # << >>

\* the edges of the catalog whose name is no version
ParseMisses ==
  {i \in 1..Len(allEdges) :
     ~allEdges[i].node.isNull /\ ~extractVersionInfo(allEdges[i].node.name).defined}

\* the edges of the catalog that are rc releases dated after the production
\* baseline and no later than one millisecond after the trigger
CountedRcEdges ==
  {i \in 1..Len(allEdges) :
     /\ ~allEdges[i].node.isNull
     /\ extractVersionInfo(allEdges[i].node.name).defined
     /\ extractVersionInfo(allEdges[i].node.name).releaseType = S_rc
     /\ lastProductionRelease.releaseDate # EmptyDate
     /\ allEdges[i].node.updatedAt > lastProductionRelease.releaseDate
     /\ allEdges[i].node.updatedAt <= date + 1}

IsDigits(s) == Len(s) > 0 /\ \A i \in 1..Len(s) : s[i] \in DigitChars

IsLowerHex(s) ==
  Len(s) > 0 /\ \A i \in 1..Len(s) : s[i] \in DigitChars \cup {"a","b","c","d","e","f"}

\* the release type the text after the three numbers stands for, Undefined
\* if it is no suffix of the grammar
GrammarTail(t) ==
  IF t = EmptyString THEN S_production
  ELSE IF startsWith(t, <<"-","d","e","v","e","l","o","p","m","e","n","t","+">>) /\ IsLowerHex(SubSeq(t, 14, Len(t)))
  THEN S_development
  ELSE IF /\ startsWith(t, <<"-","r","c",".">>)
          /\ \E k \in 5..Len(t) :
               /\ IsDigits(SubSeq(t, 5, k))
               /\ k + 1 <= Len(t) /\ t[k + 1] = "+"
               /\ IsLowerHex(SubSeq(t, k + 2, Len(t)))
  THEN S_rc
  ELSE Undefined

\* the ways s reads as "v<digits>.<digits>.<digits><suffix>": the ends of the
\* three numbers
GrammarSplits(s) ==
  {x \in (2..Len(s)) \X (2..Len(s)) \X (2..Len(s)) :
     /\ s[1] = "v"
     /\ IsDigits(SubSeq(s, 2, x[1]))
     /\ x[1] + 2 <= x[2] /\ s[x[1] + 1] = "."
     /\ IsDigits(SubSeq(s, x[1] + 2, x[2]))
     /\ x[2] + 2 <= x[3] /\ s[x[2] + 1] = "."
     /\ IsDigits(SubSeq(s, x[2] + 2, x[3]))
     /\ GrammarTail(SubSeq(s, x[3] + 1, Len(s))) # Undefined}

\* C15: extractVersionInfo returns a VersionInfo exactly for the names of the
\* strict grammar, with the release type of the suffix (production without
\* suffix) and a release candidate number exactly for the rc releases.
C15_ExactGrammar ==
  \A i \in 1..Len(allEdges) :
    LET name == allEdges[i].node.name
        versionInfo == extractVersionInfo(name)
    IN  /\ versionInfo.defined <=> GrammarSplits(name) # {}
        /\ versionInfo.defined =>
              /\ \A x \in GrammarSplits(name) :
                    versionInfo.releaseType = GrammarTail(SubSeq(name, x[3] + 1, Len(name)))
              /\ versionInfo.releaseCandidate # NaN <=> versionInfo.releaseType = S_rc

\* the numbers, the channel and the release candidate number the version
\* string of the run is built from
BuiltFrom ==
  LET numbers == IF releaseType = S_development
                 THEN BumpedNumbers(lastDevRelease.versionInfo, historyDev)
                 ELSE lastDevRelease.versionInfo
  IN  [major |-> numbers.major, minor |-> numbers.minor, patch |-> numbers.patch,
       releaseType |-> releaseType,
       releaseCandidate |-> IF releaseType = S_rc
                            THEN 1 + Cardinality(RcReleasesUpTo(date + 1))
                            ELSE NaN]

ToUpperChar(c) ==
  IF \E i \in 1..Len(LowerCase) : LowerCase[i] = c
  THEN UpperCase[CHOOSE i \in 1..Len(LowerCase) : LowerCase[i] = c]
  ELSE c

Shouted(message) ==
  <<" ", "\t">> \o [i \in 1..Len(message) |-> ToUpperChar(message[i])] \o <<"\n", " ">>

\* the tokens of the changelog sections and the prefixes of the bump levels
SectionTokens ==
  { <<"b","r","e","a","k","i","n","g",":">>, <<"f","e","a","t",":">>, <<"f","i","x",":">>, <<"c","h","o","r","e",":">>, <<"t","a","s","k",":">>, <<"r","e","f","a","c","t","o","r",":">> }

BumpPrefixes ==
  { <<"b","r","e","a","k","i","n","g">>, <<"f","e","a","t">>, <<"f","i","x">>, <<"c","h","o","r","e">>, <<"t","a","s","k">>, <<"r","e","f","a","c","t","o","r">> }

\* C17: a commit message is of at most one changelog section and of at most
\* one bump prefix (of none otherwise), and neither changes when the message
\* is put in upper case and surrounded with white space, or trimmed and put
\* in lower case (stated of the message of a range of one commit); the
\* version of a development run over any range is the one the same range
\* in upper case with white space gives.
C17_ClassificationPure ==
  /\ (pc = "compareProd" /\ Len(historyDev) = 1) =>
       LET message == historyDev[1]
       IN  /\ Cardinality({t \in SectionTokens : MessageStartsWith(message, t)}) <= 1
           /\ Cardinality({t \in BumpPrefixes : MessageStartsWith(message, t)}) <= 1
           /\ \A t \in SectionTokens \cup BumpPrefixes :
                 /\ MessageStartsWith(Shouted(message), t) = MessageStartsWith(message, t)
                 /\ MessageStartsWith(toLowerCase(trim(message)), t)
                       = MessageStartsWith(message, t)
  /\ (Ran /\ releaseType = S_development) =>
       newVersion = VersionString(BumpedNumbers(lastDevRelease.versionInfo,
                      [i \in 1..Len(historyDev) |-> Shouted(historyDev[i])]))

\* a development run over a feature in mixed case with white space around it
\* and a fix: the minor number is bumped
C17_Witness ==
  /\ Ran /\ releaseType = S_development
  /\ historyDev = << <<" ","F","e","a","t",":"," ","B"," ">>, <<"f","i","x",":"," ","a">> >>
  /\ lastDevRelease.name = <<"v","1",".","2",".","3","-","d","e","v","e","l","o","p","m","e","n","t","+","a","b","c">>
  /\ newVersion = <<"v","1",".","3",".","0">>

\* the entries of the commits of one category, in the order of the range
EntriesOf(messages, category) ==
  LET kept == SelectSeq(messages, LAMBDA m : Classify(m) = category)
  IN  [i \in 1..Len(kept) |-> <<"-"," ">> \o kept[i]]

\* a section: its heading and its entries, one per line; nothing if it has
\* no entry
ExpectedSection(heading, entries) ==
  IF Len(entries) = 0 THEN EmptyString
  ELSE heading \o <<"\n">> \o Join(entries, <<"\n">>) \o <<"\n">>

\* the six sections of a range, in their order
ExpectedSections(messages) ==
     ExpectedSection(<<"#","#"," ","B","r","e","a","k","i","n","g"," ","C","h","a","n","g","e","s">>, EntriesOf(messages, "Breaking"))
  \o ExpectedSection(<<"#","#","#"," ","N","e","w"," ","F","e","a","t","u","r","e","s">>, EntriesOf(messages, "Feature"))
  \o ExpectedSection(<<"#","#","#"," ","B","u","g"," ","F","i","x","e","s">>, EntriesOf(messages, "Fix"))
  \o ExpectedSection(<<"#","#","#"," ","C","h","o","r","e","s">>, EntriesOf(messages, "Chore"))
  \o ExpectedSection(<<"#","#","#"," ","T","a","s","k","s">>, EntriesOf(messages, "Task"))
  \o ExpectedSection(<<"#","#","#"," ","R","e","f","a","c","t","o","r","s">>, EntriesOf(messages, "Refactor"))

\* the document of a range: its sections, or the fallback line
ExpectedDocument(messages) ==
  IF Categories(messages) \subseteq {"none"}
  THEN <<"G","e","n","e","r","a","l"," ","b","u","g"," ","f","i","x","e","s"," ","a","n","d"," ","i","m","p","r","o","v","e","m","e","n","t","s","\n">>
  ELSE ExpectedSections(messages)

endsWith(s, suffix) ==
  Len(suffix) <= Len(s) /\ SubSeq(s, Len(s) - Len(suffix) + 1, Len(s)) = suffix

\* C18: every document of the changelog is made of the sections Breaking
\* Changes, New Features, Bug Fixes, Chores, Tasks, Refactors, in this order,
\* each present exactly when the range has a commit of its category and
\* listing "- <message>" for these commits: the changelog ends with the
\* document of the range since production, and on the development channel
\* it starts with the heading and the document of the range since development.
C18_SectionsOfCategories ==
  Ran =>
    /\ endsWith(changelog, ExpectedDocument(historyProd))
    /\ releaseType = S_development =>
         startsWith(changelog, <<"#"," ","C","h","a","n","g","e","s"," ","s","i","n","c","e"," ","l","a","s","t"," ","d","e","v","e","l","o","p","m","e","n","t"," ","r","e","l","e","a","s","e","\n","\n">>
                                 \o ExpectedDocument(historyDev) \o <<"\n">>)

\* the lines of a text, in order
RECURSIVE LineSeq(_)
LineSeq(text) ==
  LET breaks == {i \in 1..Len(text) : text[i] = "\n"}
  IN  IF breaks = {} THEN <<text>>
      ELSE LET b == CHOOSE i \in breaks : \A j \in breaks : i <= j
           IN  <<SubSeq(text, 1, b - 1)>> \o LineSeq(SubSeq(text, b + 1, Len(text)))

DevHeading == <<"#"," ","C","h","a","n","g","e","s"," ","s","i","n","c","e"," ","l","a","s","t"," ","d","e","v","e","l","o","p","m","e","n","t"," ","r","e","l","e","a","s","e">>

ProdHeading == <<"#"," ","A","l","l"," ","c","h","a","n","g","e","s"," ","s","i","n","c","e"," ","l","a","s","t"," ","p","r","o","d","u","c","t","i","o","n"," ","r","e","l","e","a","s","e">>

FallbackText == <<"G","e","n","e","r","a","l"," ","b","u","g"," ","f","i","x","e","s"," ","a","n","d"," ","i","m","p","r","o","v","e","m","e","n","t","s">>

\* the index of the first line that is the production heading, 0 if none is
ProdHeadingAt ==
  LET lines == LineSeq(changelog)
      at == {i \in 1..Len(lines) : lines[i] = ProdHeading}
  IN  IF at = {} THEN 0 ELSE CHOOSE i \in at : \A j \in at : i <= j

\* the lines of the changelog before the production heading, without the
\* development heading and the empty lines; the lines after it (all of them
\* without that heading), without the empty lines
DevBody ==
  LET lines == LineSeq(changelog)
  IN  IF ProdHeadingAt = 0 THEN << >>
      ELSE SelectSeq(SubSeq(lines, 1, ProdHeadingAt - 1),
                     LAMBDA l : l # EmptyString /\ l # DevHeading)

ProdBody ==
  LET lines == LineSeq(changelog)
  IN  SelectSeq(SubSeq(lines, ProdHeadingAt + 1, Len(lines)),
                LAMBDA l : l # EmptyString /\ l # DevHeading)

Contains(lines, line) == \E i \in 1..Len(lines) : lines[i] = line

\* C19: the document of a range without any commit of the six categories is
\* the fallback line alone, the document of another range does not contain
\* it; on the development channel this holds of each of the two documents,
\* whatever the other one is.
C19_FallbackPerDocument ==
  Ran =>
    /\ IF Categories(historyProd) \subseteq {"none"}
       THEN ProdBody = <<FallbackText>>
       ELSE ~Contains(ProdBody, FallbackText)
    /\ releaseType = S_development =>
         IF Categories(historyDev) \subseteq {"none"}
         THEN DevBody = <<FallbackText>>
         ELSE ~Contains(DevBody, FallbackText)

\* a development run: the range since development has a fix and a refactor,
\* the range since production has only commits of no category
C19_Witness ==
  /\ Ran /\ releaseType = S_development
  /\ historyDev = << <<"f","i","x",":"," ","a">>, <<"r","e","f","a","c","t","o","r",":"," ","r">> >>
  /\ historyProd = << <<"d","o","c","s",":"," ","d">>, <<"f","i","x","u","p"," ","e">> >>
  /\ ~Contains(DevBody, FallbackText)
  /\ ProdBody = <<FallbackText>>

\* the entry lines of a body, and the entries a range gives to the sections
\* other than Tasks
EntryLines(body) == {body[i] : i \in {j \in 1..Len(body) : startsWith(body[j], <<"-"," ">>)}}

AllEntries(messages) == {<<"-"," ">> \o messages[i] : i \in 1..Len(messages)}

ListedEntries(messages) ==
  {<<"-"," ">> \o messages[i] :
     i \in {j \in 1..Len(messages) : Classify(messages[j]) \notin {"none", "Task"}}}

\* C20, as the specification states it: the changelog has the two headings
\* on the development channel and neither of them on the rc and production
\* channels.
C20_HeadingsOnlyOnDevelopment ==
  (Ran /\ releaseType \in Channels) =>
    /\ Contains(LineSeq(changelog), DevHeading) <=> releaseType = S_development
    /\ Contains(LineSeq(changelog), ProdHeading) <=> releaseType = S_development

\* C20, amended: the development heading and the document of the range since
\* development are present exactly on the development channel; the document
\* of the range since production is present on every channel, under the
\* production heading on the development and rc channels and without
\* heading on the production channel.
C20_HeadingsByChannel ==
  (Ran /\ releaseType \in Channels) =>
    /\ Contains(LineSeq(changelog), DevHeading) <=> releaseType = S_development
    /\ Contains(LineSeq(changelog), ProdHeading) <=> releaseType # S_production
    /\ releaseType = S_development => LineSeq(changelog)[1] = DevHeading
    /\ releaseType = S_rc => ProdHeadingAt = 1
    /\ ListedEntries(historyProd) \subseteq EntryLines(ProdBody)
    /\ EntryLines(ProdBody) \subseteq AllEntries(historyProd)
    /\ IF releaseType = S_development
       THEN /\ ListedEntries(historyDev) \subseteq EntryLines(DevBody)
            /\ EntryLines(DevBody) \subseteq AllEntries(historyDev)
       ELSE DevBody = << >>

\* an rc run: the changelog is the production heading and the document of
\* the range since production, which differs from the range since development
C20_Witness ==
  /\ Ran /\ releaseType = S_rc
  /\ historyDev = << <<"f","e","a","t",":"," ","b">> >>
  /\ historyProd = << <<"f","i","x",":"," ","a">> >>
  /\ changelog = <<"#"," ","A","l","l"," ","c","h","a","n","g","e","s"," ","s","i","n","c","e"," ","l","a","s","t"," ","p","r","o","d","u","c","t","i","o","n"," ","r","e","l","e","a","s","e","\n","\n","#","#","#"," ","B","u","g"," ","F","i","x","e","s","\n","-"," ","f","i","x",":"," ","a","\n">>


\* a is b without some of its elements: the elements of a, in their order,
\* are met in b in this order
RECURSIVE IsSubsequence(_, _)
IsSubsequence(a, b) ==
  IF Len(a) = 0 THEN TRUE
  ELSE IF Len(b) = 0 THEN FALSE
  ELSE IF a[1] = b[1] THEN IsSubsequence(Tail(a), Tail(b))
  ELSE IsSubsequence(a, Tail(b))

IsHeading(line) == startsWith(line, <<"#">>)

\* the sections of a body: for every heading line, the lines that follow it
\* up to the next heading
SectionsOf(body) ==
  {SubSeq(body, h + 1,
          (CHOOSE e \in h..Len(body) :
             /\ \A k \in (h + 1)..e : ~IsHeading(body[k])
             /\ e = Len(body) \/ IsHeading(body[e + 1]))) :
     h \in {i \in 1..Len(body) : IsHeading(body[i])}}

\* the entries the commits of a range would give, one per commit, in the
\* order of the range
EntrySeq(messages) == [i \in 1..Len(messages) |-> <<"-"," ">> \o messages[i]]

\* C21: within every section of the changelog the entries are in the order
\* their commits have in the range the section is made from (the range
\* since development for the first document of a development run, the range
\* since production otherwise).
C21_OrderOfRangeKept ==
  Ran =>
    /\ \A section \in SectionsOf(ProdBody) : IsSubsequence(section, EntrySeq(historyProd))
    /\ \A section \in SectionsOf(DevBody) : IsSubsequence(section, EntrySeq(historyDev))

\* a development run whose ranges hold the same two fixes in opposite
\* orders: each document lists them in the order of its range
C21_Witness ==
  /\ Ran /\ releaseType = S_development
  /\ historyDev = << <<"f","i","x",":"," ","b">>, <<"f","i","x",":"," ","a">> >>
  /\ historyProd = << <<"f","i","x",":"," ","a">>, <<"f","i","x",":"," ","b">> >>
  /\ SectionsOf(DevBody) = {<< <<"-"," ","f","i","x",":"," ","b">>, <<"-"," ","f","i","x",":"," ","a">> >>}
  /\ SectionsOf(ProdBody) = {<< <<"-"," ","f","i","x",":"," ","a">>, <<"-"," ","f","i","x",":"," ","b">> >>}


\* s with every character c replaced by the character d
ReplaceAll(s, c, d) == [i \in 1..Len(s) |-> IF s[i] = c THEN d ELSE s[i]]

\* a number written with all its digits, however large it is
Zeros(k) == [i \in 1..k |-> "0"]

AllDigits(n) == IF IsExponential(n) THEN <<"1">> \o Zeros(0 - n) ELSE Decimal(n)

\* the numbers of the new version: the development baseline's, bumped on
\* the development channel
NewNumbers ==
  IF releaseType = S_development
  THEN ExpectedNumbers(lastDevRelease.versionInfo, historyDev)
  ELSE lastDevRelease.versionInfo

\* C22: the normalised version is the version with every "+" replaced by
\* "-", so that it has no "+"; the version number is
\* <major>.<minor>.<patch> of the new version, in digits, without the "v"
\* and without a suffix.
C22_NormalisedAndNumber ==
  Ran =>
    /\ outputs.normalisedVersion = ReplaceAll(outputs.version, "+", "-")
    /\ \A i \in 1..Len(outputs.normalisedVersion) : outputs.normalisedVersion[i] # "+"
    /\ outputs.versionNumber =
         AllDigits(NewNumbers.major) \o <<".">> \o AllDigits(NewNumbers.minor)
           \o <<".">> \o AllDigits(NewNumbers.patch)

\* the places of the failure reports among the calls
Reports == {i \in 1..Len(calls) : calls[i] = "setFailed"}

\* a request that failed is sent again later in the run
Retried ==
  \E i \in Reports : \E j \in (i + 1)..Len(calls) : i > 1 /\ calls[j] = calls[i - 1]

\* C23: a run reports at most one failure, the report is the last thing the
\* run does (no request, no output and nothing created after it), and a
\* request that failed is not sent again.
C23_OneReportThenHalt ==
  /\ Len(failures) <= 1
  /\ \A i \in Reports : i = Len(calls)
  /\ failures # << >> => pc = "done"
  /\ ~Retried


\* the rc releases of the catalog dated no later than one millisecond
\* after the trigger
RcReleasesBeforeTrigger ==
  {i \in 1..Len(releases) :
     releases[i].versionInfo.releaseType = S_rc /\ releases[i].releaseDate <= date + 1}

\* C26: an rc run for which no production release qualifies takes the
\* synthetic baseline, whose release date is empty, and its ordinal is 1
\* whatever rc releases the catalog has.
C26_OrdinalOneWithoutProduction ==
  (Ran /\ releaseType = S_rc /\ QualifyingProduction = {}) =>
    /\ lastProductionRelease = ZeroBaseline(S_production)
    /\ lastProductionRelease.releaseDate = EmptyDate
    /\ metadata = <<"-","r","c",".","1","+">> \o ShortHash

\* an rc run over a catalog of two rc releases, both dated before the
\* trigger, and no production release
C26_Witness ==
  /\ Ran /\ releaseType = S_rc /\ QualifyingProduction = {}
  /\ Cardinality(RcReleasesBeforeTrigger) = 2
  /\ outputs.version = <<"v","0",".","0",".","0","-","r","c",".","1","+","a","b","c","d","e","f","1">>


\* the calls that create something on the platform
SinkCalls == {"createTag", "createRef", "createRelease", "upload"}

\* the suffix of the version on each channel
ExpectedSuffix ==
  IF releaseType = S_development THEN <<"-","d","e","v","e","l","o","p","m","e","n","t","+">> \o ShortHash
  ELSE IF releaseType = S_rc THEN RcSuffix(1 + Cardinality(RcReleasesUpTo(date + 1)))
  ELSE EmptyString

\* the outputs as the configuration other than DRY_RUN and the answers of
\* the platform determine them
ExpectedVersion == VersionString(NewNumbers) \o ExpectedSuffix

\* C27: a dry run creates no tag, no ref, no release and no notification
\* and sends none of these requests; the outputs of a run, dry or not, are
\* determined by its configuration other than DRY_RUN and by the answers
\* of the platform, so that a dry run sets what the other run would set.
C27_DryRunOnlyOutputs ==
  /\ DRY_RUN = S_true =>
       /\ tag = NoTag /\ ref = NoRef
       /\ release = NoCreatedRelease /\ notification = NoNotification
       /\ \A i \in 1..Len(calls) : calls[i] \notin SinkCalls
  /\ (outputs # NoOutputs /\ releaseType \in Channels) =>
       /\ outputs.version = ExpectedVersion
       /\ outputs.normalisedVersion = ReplaceAll(ExpectedVersion, "+", "-")
       /\ outputs.versionNumber = SubSeq(VersionString(NewNumbers), 2,
                                         Len(VersionString(NewNumbers)))

\* a dry run on the development channel that ended with its outputs set
C27_Witness ==
  /\ DRY_RUN = S_true /\ pc = "done" /\ failures = << >>
  /\ releaseType = S_development
  /\ lastDevRelease.name = <<"v","1",".","2",".","3","-","d","e","v","e","l","o","p","m","e","n","t","+","a","b","c">>
  /\ historyDev = << <<"f","i","x",":"," ","a">> >>
  /\ outputs = [version |-> <<"v","1",".","2",".","4","-","d","e","v","e","l","o","p","m","e","n","t","+","a","b","c","d","e","f","1">>,
                normalisedVersion |-> <<"v","1",".","2",".","4","-","d","e","v","e","l","o","p","m","e","n","t","-","a","b","c","d","e","f","1">>,
                versionNumber |-> <<"1",".","2",".","4">>]
  /\ calls = <<"query", "getCommit", "compareCommits", "compareCommits",
               "setOutput", "setOutput", "setOutput">>

\* the calls of the run that set an output or create something, in order
SinkTrace == SelectSeq(calls, LAMBDA c : c \in SinkCalls \cup {"setOutput"})

SinkOrder ==
  <<"setOutput", "setOutput", "setOutput", "createTag", "createRef", "createRelease",
    "upload">>

\* C28: the outputs are set, then the tag, the ref, the release and the
\* notification are created, in this order; a step is taken only when the
\* step before it succeeded, and a run that is no dry run and reports no
\* failure takes them all.
C28_SinksInOrder ==
  /\ Len(SinkTrace) <= Len(SinkOrder)
  /\ SinkTrace = SubSeq(SinkOrder, 1, Len(SinkTrace))
  /\ tag.created => outputs # NoOutputs
  /\ ref.created => tag.created
  /\ release.created => ref.created
  /\ notification.created => release.created
  /\ \A i \in Reports : i > 1 /\ calls[i - 1] \in SinkCalls => i = Len(calls)
  /\ "createRef" \in {calls[i] : i \in 1..Len(calls)} => tag.created
  /\ "createRelease" \in {calls[i] : i \in 1..Len(calls)} => ref.created
  /\ "upload" \in {calls[i] : i \in 1..Len(calls)} => release.created
  /\ (pc = "done" /\ DRY_RUN # S_true /\ failures = << >>) => notification.created

\* a run whose createRef throws: the tag exists, the release and the
\* notification do not, and the failure report ends the run
C28_Witness ==
  /\ pc = "done" /\ DRY_RUN = S_false
  /\ tag.created /\ ~ref.created /\ ~release.created /\ ~notification.created
  /\ failures = <<"Workflow failed! createRef">>
  /\ SinkTrace = <<"setOutput", "setOutput", "setOutput", "createTag", "createRef">>

\* C29: the tag, the ref "refs/tags/<name>" and the release (its tag name
\* and its name) carry the version output; the release is a pre-release
\* exactly when the channel is not production, and it is no draft.
C29_OneNameForAll ==
  /\ tag.created => tag.tag = outputs.version /\ tag.object = GITHUB_SHA
  /\ ref.created => ref.ref = <<"r","e","f","s","/","t","a","g","s","/">> \o outputs.version
  /\ release.created =>
       /\ release.tag_name = outputs.version
       /\ release.name = outputs.version
       /\ release.name = tag.tag
       /\ release.body = changelog
       /\ ~release.draft
       /\ release.prerelease <=> releaseType # S_production
  /\ notification.created => notification.version = outputs.version

\* an rc run that created everything
C29_Witness ==
  /\ pc = "done" /\ notification.created
  /\ releaseType = S_rc
  /\ tag.tag = <<"v","1",".","2",".","3","-","r","c",".","1","+","a","b","c","d","e","f","1">>
  /\ ref.ref = <<"r","e","f","s","/","t","a","g","s","/","v","1",".","2",".","3","-","r","c",".","1","+","a","b","c","d","e","f","1">>
  /\ release.name = <<"v","1",".","2",".","3","-","r","c",".","1","+","a","b","c","d","e","f","1">>
  /\ release.prerelease



\* the version information of the releases of the catalog, in the order of
\* their creation
Created == [i \in 1..Len(catalog) |-> extractVersionInfo(catalog[i].node.name)]

\* the ordinals of the release candidates among them
RcOrdinals ==
  LET rc == SelectSeq(Created, LAMBDA v : v.releaseType = S_rc)
  IN  [i \in 1..Len(rc) |-> rc[i].releaseCandidate]

\* C24: the rc runs of a series, each on the catalog the runs before it
\* left and without a production release made in between, produce the
\* ordinals 1, 2, 3, ...
C24_OrdinalsCountUp ==
  releaseType = S_rc => \A i \in 1..Len(RcOrdinals) : RcOrdinals[i] = i

\* (major, minor, patch) of a is not above that of b
VersionLeq(a, b) ==
  \/ a.major < b.major
  \/ a.major = b.major /\ a.minor < b.minor
  \/ a.major = b.major /\ a.minor = b.minor /\ a.patch <= b.patch

\* C25: the development runs of a series, each on the catalog the runs
\* before it left and on a commit authored no earlier than the one before,
\* produce versions whose (major, minor, patch) never decreases, in
\* whatever order the catalog is delivered.
C25_VersionsNeverDecrease ==
  releaseType = S_development =>
    \A i \in 1..(Len(catalog) - 1) : VersionLeq(Created[i], Created[i + 1])
====
